---- MODULE Spec2Model ----
(***************************************************************************)
(* A model of the index subsystem of fsx: paths, flags, files, the Index,  *)
(* the Tree built from it (ToTree), the duplicate-directory search (Dups)  *)
(* and the concurrent scanner (Scan / Rescan).                             *)
(*                                                                         *)
(* A path is a sequence of one-character strings (its bytes).  A File is   *)
(* a record; the program shares *File pointers between Index and Tree, so  *)
(* the model keeps the records in a heap (files) and passes file ids.      *)
(***************************************************************************)
EXTENDS Integers, Sequences, FiniteSets, TLC

\* ------------------------------------------------------------------------
\* Bytes
\* ------------------------------------------------------------------------

\* The bytes that occur in the model's paths, in ascending byte order.
ByteOrder ==
    << "\t", "\n", ".", "/", "A", "B", "T", "X", "Y",
       "a", "b", "c", "d", "e", "f", "g", "h", "i", "k", "m", "n", "o", "p",
       "s", "t", "u", "v", "x", "y", "z" >>

Ord(c) == CHOOSE i \in 1..Len(ByteOrder) : ByteOrder[i] = c

RECURSIVE IndexByteFrom(_, _, _)
\* strings.IndexByte(s[k-1:], c) as a 1-based position in s, 0 when absent
IndexByteFrom(s, c, k) ==
    IF k > Len(s) THEN 0
    ELSE IF s[k] = c THEN k
    ELSE IndexByteFrom(s, c, k + 1)

RECURSIVE LastIndexByteTo(_, _, _)
\* strings.LastIndexByte(s[:k], c) as a 1-based position in s, 0 when absent
LastIndexByteTo(s, c, k) ==
    IF k < 1 THEN 0
    ELSE IF s[k] = c THEN k
    ELSE LastIndexByteTo(s, c, k - 1)

RECURSIVE CountByte(_, _)
CountByte(s, c) ==
    IF s = << >> THEN 0
    ELSE (IF Head(s) = c THEN 1 ELSE 0) + CountByte(Tail(s), c)

\* cmp.Compare on strings: byte-wise, a proper prefix is less
RECURSIVE CompareStr(_, _)
CompareStr(a, b) ==
    IF a = << >> /\ b = << >> THEN 0
    ELSE IF a = << >> THEN -1
    ELSE IF b = << >> THEN 1
    ELSE IF Head(a) # Head(b) THEN (IF Ord(Head(a)) < Ord(Head(b)) THEN -1 ELSE 1)
    ELSE CompareStr(Tail(a), Tail(b))

CompareInt(a, b) == IF a < b THEN -1 ELSE IF a > b THEN 1 ELSE 0

\* ------------------------------------------------------------------------
\* Paths (index/path.go)
\* ------------------------------------------------------------------------

Root == << "." >>
EmptyPath == << >>

\* the value a comparison that panics takes in the model
PanicCmp == 2

contains(p, other) ==
    p = Root \/ ( /\ 0 < Len(p)
                  /\ Len(p) <= Len(other)
                  /\ SubSeq(other, 1, Len(p)) = p
                  /\ p[Len(p)] = "/" )

\* parent directory of a non-empty path
dir(p) ==
    LET k == LastIndexByteTo(p, "/", Len(p) - 1)
    IN  IF k > 1 THEN SubSeq(p, 1, k) ELSE Root

base(p) ==
    LET q == IF p[Len(p)] = "/" THEN SubSeq(p, 1, Len(p) - 1) ELSE p
        k == LastIndexByteTo(q, "/", Len(q))
    IN  IF k > 1 THEN SubSeq(q, k + 1, Len(q)) ELSE q

isDir(p) == 0 < Len(p) /\ (p = Root \/ p[Len(p)] = "/")

isFile(p) == 0 < Len(p) /\ p # Root /\ p[Len(p)] # "/"

RECURSIVE CommonRootLen(_, _, _)
\* the number of bytes of a (= b) consumed by commonRoot's loop
CommonRootLen(a, b, n) ==
    LET i == IndexByteFrom(a, "/", n + 1)
    IN  IF i = 0 \/ Len(b) < i \/ SubSeq(a, n + 1, i) # SubSeq(b, n + 1, i)
        THEN n
        ELSE CommonRootLen(a, b, i)

commonRoot(p, other) ==
    LET n == CommonRootLen(p, other, 0)
    IN  IF n > 0 THEN SubSeq(p, 1, n) ELSE Root

dist(p, other) ==
    LET r == commonRoot(p, other)
        n == IF r # Root THEN Len(r) ELSE 0
    IN  CountByte(SubSeq(p, n + 1, Len(p)), "/")
          + CountByte(SubSeq(other, n + 1, Len(other)), "/")

lessIf(b) == IF b THEN -1 ELSE 1

RECURSIVE FirstMismatch(_, _, _)
\* the first 1-based position where a and b differ, 0 when one is a prefix
FirstMismatch(a, b, i) ==
    IF i > Len(a) \/ i > Len(b) THEN 0
    ELSE IF a[i] # b[i] THEN i
    ELSE FirstMismatch(a, b, i + 1)

\* path.cmp without the rule that a directory is less than a file
pathCmpBytes(p, other) ==
    IF p = EmptyPath \/ other = EmptyPath THEN PanicCmp
    ELSE IF (Len(p) <= 1 \/ Len(other) <= 1) /\ (p = Root \/ other = Root) THEN
        (IF p = other THEN 0 ELSE lessIf(p = Root))
    ELSE
        LET i == FirstMismatch(p, other, 1)
        IN  IF i # 0 THEN
                IF p[i] = "/" \/ other[i] = "/" THEN lessIf(p[i] = "/")
                ELSE lessIf(Ord(p[i]) < Ord(other[i]))
            ELSE IF Len(p) = Len(other) THEN 0
            ELSE
                LET invert == Len(p) >= Len(other)
                    a == IF invert THEN other ELSE p
                    b == IF invert THEN p ELSE other
                    bSep == IndexByteFrom(b, "/", Len(a) + 1)
                IN  IF bSep = Len(a) + 1 THEN PanicCmp
                    ELSE lessIf((a[Len(a)] = "/" \/ bSep = 0) # invert)

\* path.cmp: -1, 0, +1, or PanicCmp
pathCmp(p, other) ==
    IF p = EmptyPath \/ other = EmptyPath THEN PanicCmp
    ELSE IF (Len(p) <= 1 \/ Len(other) <= 1) /\ (p = Root \/ other = Root) THEN
        (IF p = other THEN 0 ELSE lessIf(p = Root))
    ELSE
        LET i == FirstMismatch(p, other, 1)
        IN  IF i # 0 THEN
                IF p[i] = "/" \/ other[i] = "/" THEN lessIf(p[i] = "/")
                ELSE LET aDir == IndexByteFrom(p, "/", i + 1) # 0
                         bDir == IndexByteFrom(other, "/", i + 1) # 0
                     IN  IF aDir # bDir THEN lessIf(aDir)
                         ELSE lessIf(Ord(p[i]) < Ord(other[i]))
            ELSE IF Len(p) = Len(other) THEN 0
            ELSE
                LET invert == Len(p) >= Len(other)
                    a == IF invert THEN other ELSE p
                    b == IF invert THEN p ELSE other
                    bSep == IndexByteFrom(b, "/", Len(a) + 1)
                IN  IF bSep = Len(a) + 1 THEN PanicCmp
                    ELSE lessIf((a[Len(a)] = "/" \/ bSep = 0) # invert)

\* steps.next / steps.skip / uniqueDirs.forEach: the sequence of directories
\* fn is called with, for the list u of directory paths added to the set.
\* A step is a pair <<p, n>>: the path and the bytes already yielded.
StepsNextN(st) ==
    LET p == st[1]
        n == st[2]
        i == IndexByteFrom(p, "/", n + 1)
    IN  IF n >= Len(p) \/ p = Root THEN n
        ELSE IF i > n + 1 THEN i
        ELSE Len(p)

StepsSkip(st, p) ==
    IF /\ st[2] < Len(p)
       /\ Len(p) <= Len(st[1])
       /\ SubSeq(st[1], 1, Len(p)) = p
       /\ p[Len(p)] = "/"
    THEN << st[1], Len(p) >>
    ELSE st

RECURSIVE ForEachFrom(_, _)
ForEachFrom(u, i) ==
    IF i > Len(u) THEN << >>
    ELSE LET st == u[i]
             exhausted == st[2] >= Len(st[1]) \/ st[1] = Root
             n == StepsNextN(st)
             p == SubSeq(st[1], 1, n)
             u2 == [j \in 1..Len(u) |->
                      IF j = i THEN << st[1], n >>
                      ELSE IF j > i THEN StepsSkip(u[j], p)
                      ELSE u[j]]
         IN  IF exhausted THEN ForEachFrom(u, i + 1)
             ELSE << p >> \o ForEachFrom(u2, i)

\* uniqueDirs.forEach over the directory paths ps (in the order added)
uniqueDirsForEach(ps) ==
    IF ps = << >> THEN << >>
    ELSE << Root >> \o ForEachFrom([j \in 1..Len(ps) |-> << ps[j], 0 >>], 1)

\* ------------------------------------------------------------------------
\* Flags (unnamed/part_026)
\* ------------------------------------------------------------------------

flagNone == 0
flagDup == 1
flagJunk == 2
flagKeep == 3
flagGone == 4
flagSame == 16
flagPersist == 15

\* a & flagKeep, a & flagGone, a & flagSame, a & flagPersist
MarkOf(a) == a % 4
GoneOf(a) == ((a \div 4) % 2) * 4
SameOf(a) == ((a \div 16) % 2) * 16
PersistOf(a) == a % 16

\* Keep with the wrong constant
KeepAsJunk(a) == MarkOf(a) = flagJunk
Keep(a) == MarkOf(a) = flagKeep
IsGone(a) == GoneOf(a) # 0
IsSafe(a) == PersistOf(a) = 0 \/ PersistOf(a) = flagKeep

\* ------------------------------------------------------------------------
\* Files (unnamed/part_019).  F is the heap: file id -> File record
\*   [path, digest, size, modTime, flag]
\* ------------------------------------------------------------------------

Seq2Set(s) == { s[i] : i \in 1..Len(s) }

\* strings.EqualFold on the model's bytes: only these letters have two cases
Fold(c) == IF c = "A" THEN "a" ELSE IF c = "B" THEN "b"
           ELSE IF c = "T" THEN "t" ELSE IF c = "X" THEN "x"
           ELSE IF c = "Y" THEN "y" ELSE c

EqualFold(a, b) ==
    Len(a) = Len(b) /\ \A i \in 1..Len(a) : Fold(a[i]) = Fold(b[i])

ThumbsDb == << "T", "h", "u", "m", "b", "s", ".", "d", "b" >>
DesktopIni == << "d", "e", "s", "k", "t", "o", "p", ".", "i", "n", "i" >>

canIgnore(f) ==
    \/ f.size = 0
    \/ EqualFold(base(f.path), ThumbsDb)
    \/ EqualFold(base(f.path), DesktopIni)

existsIn(f, d) == ~IsGone(f.flag) /\ contains(d, f.path)
\* isSafeIn that only looks at where the file is
isSafeInAnyFlag(f, d) == ~IsGone(f.flag) /\ contains(d, f.path)
isSafeIn(f, d) == IsSafe(f.flag) /\ contains(d, f.path)
isSafeOutsideOf(f, d) == IsSafe(f.flag) /\ ~contains(d, f.path)

\* File.cmp
fileCmp(f, g) ==
    LET c1 == pathCmp(f.path, g.path)
        c2 == CompareInt(GoneOf(f.flag), GoneOf(g.flag))
        c3 == CompareInt(f.modTime, g.modTime)
        c4 == CompareInt(MarkOf(f.flag), MarkOf(g.flag))
    IN  IF c1 # 0 THEN c1
        ELSE IF c2 # 0 THEN c2
        ELSE IF c3 # 0 THEN c3
        ELSE IF c4 # 0 THEN c4
        ELSE CompareInt(f.size, g.size)

\* slices.SortFunc on a short slice is insertionSortCmpFunc; Cmp(a, b) compares
\* two elements.  The result is [panic, s]: whether a comparison panicked,
\* and the sorted slice.
RECURSIVE InsertSorted(_, _, _)
InsertSorted(Cmp(_, _), r, x) ==
    IF r.panic THEN r
    ELSE IF r.s = << >> THEN [panic |-> FALSE, s |-> << x >>]
    ELSE LET n == Len(r.s)
             c == Cmp(x, r.s[n])
         IN  IF c = PanicCmp THEN [panic |-> TRUE, s |-> r.s \o << x >>]
             ELSE IF c < 0 THEN
                 LET t == InsertSorted(Cmp, [panic |-> FALSE, s |-> SubSeq(r.s, 1, n - 1)], x)
                 IN  [panic |-> t.panic, s |-> t.s \o << r.s[n] >>]
             ELSE [panic |-> FALSE, s |-> r.s \o << x >>]

RECURSIVE InsertionSort(_, _)
InsertionSort(Cmp(_, _), s) ==
    IF s = << >> THEN [panic |-> FALSE, s |-> << >>]
    ELSE LET n == Len(s)
         IN  InsertSorted(Cmp, InsertionSort(Cmp, SubSeq(s, 1, n - 1)), s[n])

\* Files.Sort over file ids
FilesSort(F, ids) ==
    LET Cmp(a, b) == fileCmp(F[a], F[b])
    IN  InsertionSort(Cmp, ids)

\* ------------------------------------------------------------------------
\* Index (unnamed/part_015): [root, groups], a group is a sequence of ids
\* ------------------------------------------------------------------------

RECURSIVE FirstDigests(_, _, _)
\* the digests of all[i..], without repetition, in order of first occurrence
FirstDigests(F, all, seen) ==
    IF all = << >> THEN << >>
    ELSE LET g == F[Head(all)].digest
         IN  IF g \in seen THEN FirstDigests(F, Tail(all), seen)
             ELSE << g >> \o FirstDigests(F, Tail(all), seen \cup {g})

\* groupByDigest with the groups in the order of their last files
groupByLastFile(F, all) ==
    LET back == [i \in 1..Len(all) |-> all[Len(all) + 1 - i]]
        ds == FirstDigests(F, back, {})
        Group(g) == LET Same(id) == F[id].digest = g IN SelectSeq(all, Same)
        groups == [k \in 1..Len(ds) |-> Group(ds[k])]
        collision == \E k \in 1..Len(ds) : \E i \in 1..Len(groups[k]) :
                        F[groups[k][i]].size # F[groups[k][1]].size
    IN  [panic |-> collision, groups |-> groups]
\* groupByDigest: [panic, groups]
groupByDigest(F, all) ==
    LET ds == FirstDigests(F, all, {})
        Group(g) == LET Same(id) == F[id].digest = g IN SelectSeq(all, Same)
        groups == [k \in 1..Len(ds) |-> Group(ds[k])]
        collision == \E k \in 1..Len(ds) : \E i \in 1..Len(groups[k]) :
                        F[groups[k][i]].size # F[groups[k][1]].size
    IN  [panic |-> collision, groups |-> groups]

\* New: the Index of the (sorted) file list all
New(root, F, all) ==
    IF all = << >> THEN [panic |-> FALSE, root |-> root, groups |-> << >>]
    ELSE LET r == groupByDigest(F, all)
         IN  [panic |-> r.panic, root |-> root, groups |-> r.groups]

\* ------------------------------------------------------------------------
\* Index text format (unnamed/part_015 98-299, unnamed/part_026 42-84)
\*   A text is a sequence of bytes.  A formatted time, digest or size is one
\*   element of the sequence (its rendering contains no tab and no newline).
\* ------------------------------------------------------------------------

\* Flag.write
flagWriteGoneOnly(a) == GoneOf(a) = 0
flagWrite(a) == GoneOf(a) = 0 \/ MarkOf(a) # 0

\* Flag.String
flagString(a) ==
    LET p == PersistOf(a)
    IN  IF p = flagDup THEN << "D" >>
        ELSE IF p = flagJunk THEN << "J" >>
        ELSE IF p = flagKeep THEN << "K" >>
        ELSE IF p = flagDup + flagGone THEN << "D", "X" >>
        ELSE IF p = flagJunk + flagGone THEN << "J", "X" >>
        ELSE IF p = flagKeep + flagGone THEN << "K", "X" >>
        ELSE << >>

\* parseFlag: [a, ok]
parseFlag(b) ==
    IF Len(b) = 0 THEN [a |-> flagNone, ok |-> TRUE]
    ELSE LET gone == b[Len(b)] = "X"
             a0 == IF gone THEN flagGone ELSE flagNone
             ok0 == IF gone THEN Len(b) = 2 ELSE Len(b) = 1
         IN  IF b[1] = "D" THEN [a |-> a0 + flagDup, ok |-> ok0]
             ELSE IF b[1] = "J" THEN [a |-> a0 + flagJunk, ok |-> ok0]
             ELSE IF b[1] = "K" THEN [a |-> a0 + flagKeep, ok |-> ok0]
             ELSE [a |-> a0, ok |-> FALSE]

\* time.Time.AppendFormat(RFC3339Nano) of the model's modification times
TimeText ==
    << "2009-11-10T23:00:00Z", "2009-11-11T23:00:01Z", "2009-11-12T23:00:02Z" >>

\* hex.Encode of the model's digests
DigestText == << "01", "02", "03" >>

\* strconv.AppendUint of the model's sizes
SizeText == << "1", "2", "3", "4" >>

\* the inverse of a rendering: the value whose text is the line ln, or 0
Parse(table, ln) ==
    IF Len(ln) = 1 /\ \E v \in 1..Len(table) : table[v] = ln[1]
    THEN CHOOSE v \in 1..Len(table) : table[v] = ln[1]
    ELSE 0

v1 == "fsx index v1"

tabWidth == 8

RECURSIVE SpanByte(_, _, _)
\* the first position from k on where s does not hold byte c
SpanByte(s, c, k) == IF k <= Len(s) /\ s[k] = c THEN SpanByte(s, c, k + 1) ELSE k

RECURSIVE width(_, _)
\* width(s) with n columns already counted; every byte of the model that is
\* not a tab is one column wide
width(s, n) ==
    LET i == IndexByteFrom(s, "\t", 1)
        j == SpanByte(s, "\t", i + 1)
    IN  IF i = 0 THEN n + Len(s)
        ELSE width(SubSeq(s, j, Len(s)), ((n + i - 1) \div tabWidth) * tabWidth + (j - i) * tabWidth)

RECURSIVE Repeat(_, _)
Repeat(c, n) == IF n <= 0 THEN << >> ELSE << c >> \o Repeat(c, n - 1)

RECURSIVE TrimRight(_)
\* strings.TrimRight(p, "\t\n\v\f\r ")
TrimRight(p) ==
    IF p # << >> /\ p[Len(p)] \in { "\t", "\n" } THEN TrimRight(SubSeq(p, 1, Len(p) - 1)) ELSE p

RECURSIVE TrimLeftTabs(_)
\* bytes.TrimLeft(ln, "\t")
TrimLeftTabs(ln) == IF ln # << >> /\ Head(ln) = "\t" THEN TrimLeftTabs(Tail(ln)) ELSE ln

minAlign == 2 * tabWidth + 64 + tabWidth + tabWidth + tabWidth

lineWidth(f) ==
    IF flagWrite(f.flag)
    THEN tabWidth + (width(f.path, 0) \div tabWidth) * tabWidth + 2 * tabWidth
    ELSE 0

RECURSIVE MaxWidth(_, _)
MaxWidth(fs, a) ==
    IF fs = << >> THEN a
    ELSE MaxWidth(Tail(fs), IF lineWidth(Head(fs)) > a THEN lineWidth(Head(fs)) ELSE a)

\* the line write emits for file i of the group fs (a sequence of Files)
fileLine(fs, i) ==
    LET f == fs[i]
        n == (MaxWidth(fs, minAlign) - lineWidth(f)) \div tabWidth
    IN  flagString(f.flag) \o << "\t" >> \o f.path
          \o (IF i = 1 \/ f.modTime # fs[i - 1].modTime
              THEN << "\t", "/", "/", "\t" >> \o Repeat("\t", n) \o << TimeText[f.modTime] >>
              ELSE IF TrimRight(f.path) # f.path THEN << "\t", "/", "/" >>
              ELSE << >>)
          \o << "\n" >>

RECURSIVE fileLines(_, _)
\* the second loop of write over one group, from file i on
fileLines(fs, i) ==
    IF i > Len(fs) THEN << >>
    ELSE (IF flagWrite(fs[i].flag) THEN fileLine(fs, i) ELSE << >>) \o fileLines(fs, i + 1)

\* what write emits for one group: nothing when no file of it is written
groupText(fs) ==
    IF \A i \in 1..Len(fs) : ~flagWrite(fs[i].flag) THEN << >>
    ELSE fileLines(fs, 1)
           \o << "\t", "\t", DigestText[fs[1].digest], "\t", SizeText[fs[1].size], "\n" >>

RECURSIVE groupsText(_, _)
groupsText(F, gs) ==
    IF gs = << >> THEN << >>
    ELSE groupText([i \in 1..Len(Head(gs)) |-> F[Head(gs)[i]]]) \o groupsText(F, Tail(gs))

writeHeader(root) == << v1, "\n" >> \o root \o << "\n" >>

\* Index.write: [panic, text]
write(x, F) ==
    [panic |-> \E k \in 1..Len(x.groups) : \E i \in 1..Len(x.groups[k]) :
                  \/ F[x.groups[k][i]].digest # F[x.groups[k][1]].digest
                  \/ F[x.groups[k][i]].size # F[x.groups[k][1]].size,
     text |-> writeHeader(x.root) \o groupsText(F, x.groups)]

RECURSIVE ScanLines(_)
\* bufio.Scanner with ScanLines: the lines of a text, without their newlines
ScanLines(text) ==
    IF text = << >> THEN << >>
    ELSE LET k == IndexByteFrom(text, "\n", 1)
         IN  IF k = 0 THEN << text >>
             ELSE << SubSeq(text, 1, k - 1) >> \o ScanLines(SubSeq(text, k + 1, Len(text)))

RECURSIVE IndexSeqFrom(_, _, _)
\* bytes.Index(s[k-1:], sep) as a 1-based position in s, 0 when absent
IndexSeqFrom(s, sep, k) ==
    IF k + Len(sep) - 1 > Len(s) THEN 0
    ELSE IF SubSeq(s, k, k + Len(sep) - 1) = sep THEN k
    ELSE IndexSeqFrom(s, sep, k + 1)

\* path.Clean of a relative path, as its list of components
RECURSIVE CleanParts(_, _)
CleanParts(parts, out) ==
    IF parts = << >> THEN out
    ELSE LET c == Head(parts)
         IN  IF c = << >> \/ c = << "." >> THEN CleanParts(Tail(parts), out)
             ELSE IF c = << ".", "." >> /\ out # << >> /\ out[Len(out)] # << ".", "." >>
                  THEN CleanParts(Tail(parts), SubSeq(out, 1, Len(out) - 1))
             ELSE CleanParts(Tail(parts), Append(out, c))

RECURSIVE SplitSlash(_)
SplitSlash(p) ==
    LET k == IndexByteFrom(p, "/", 1)
    IN  IF k = 0 THEN << p >>
        ELSE << SubSeq(p, 1, k - 1) >> \o SplitSlash(SubSeq(p, k + 1, Len(p)))

RECURSIVE JoinSlash(_)
JoinSlash(parts) ==
    IF parts = << >> THEN << >>
    ELSE IF Len(parts) = 1 THEN parts[1]
    ELSE parts[1] \o << "/" >> \o JoinSlash(Tail(parts))

\* cleanPath: the clean form of p, EmptyPath when p is invalid
cleanPath(p) ==
    IF p = << >> THEN EmptyPath
    ELSE LET parts == CleanParts(SplitSlash(p), << >>)
             c == IF parts = << >> THEN Root ELSE JoinSlash(parts)
             n == Len(p)
         IN  IF p[1] = "/" \/ (parts # << >> /\ parts[1] = << ".", "." >>)
                \/ (Len(c) > 1 /\ c[2] = ":")
             THEN EmptyPath
             ELSE IF p[n] = "/" THEN (IF c = Root THEN Root ELSE c \o << "/" >>)
             ELSE IF p[n] = "." THEN
                 (IF c = Root THEN Root
                  ELSE IF (n > 3 /\ SubSeq(p, n - 2, n) = << "/", ".", "." >>)
                          \/ (n > 1 /\ p[n - 1] = "/")
                       THEN c \o << "/" >>
                  ELSE c)
             ELSE c

\* strictFilePath does not panic on p
strictFilePathOk(p) == cleanPath(p) = p /\ isFile(p)

\* readHeader: the error, "" when there is none
readHeader(lines) ==
    IF Len(lines) < 1 THEN "missing signature"
    ELSE IF lines[1] # << v1 >> THEN "invalid signature"
    ELSE IF Len(lines) < 2 THEN "missing root"
    ELSE IF IndexByteFrom(lines[2], "\t", 1) # 0 THEN "invalid root"
    ELSE ""

\* the body of read's loop for a file line (after the flag's tab was found):
\* the state [err, panic, g, groups] with the file appended to g
readFile(st, ln) ==
    LET k == IndexByteFrom(ln, "\t", 1)
        flag == parseFlag(SubSeq(ln, 1, k - 1))
        rest == SubSeq(ln, k + 1, Len(ln))
        c == IndexSeqFrom(rest, << "\t", "/", "/" >>, 1)
        p == IF c = 0 THEN rest ELSE SubSeq(rest, 1, c - 1)
        tm == IF c = 0 THEN << >> ELSE SubSeq(rest, c + 3, Len(rest))
        when == Parse(TimeText, TrimLeftTabs(tm))
        File(m) == [path |-> p, digest |-> 0, size |-> 0, modTime |-> m, flag |-> flag.a]
    IN  IF k = 0 THEN [st EXCEPT !.err = "invalid entry"]
        ELSE IF ~flag.ok THEN [st EXCEPT !.err = "invalid flag"]
        ELSE IF ~strictFilePathOk(p) THEN [st EXCEPT !.panic = TRUE]
        ELSE IF Len(tm) > 0 THEN
            (IF when = 0 THEN [st EXCEPT !.err = "invalid modification time"]
             ELSE [st EXCEPT !.g = Append(@, File(when))])
        ELSE IF Len(st.g) = 0 THEN [st EXCEPT !.err = "missing modification time"]
        ELSE [st EXCEPT !.g = Append(@, File(st.g[Len(st.g)].modTime))]

\* the body of read's loop for a trailer line, ln being what follows "\t\t"
readTrailer(st, ln) ==
    LET k == IndexByteFrom(ln, "\t", 1)
        digest == Parse(DigestText, SubSeq(ln, 1, k - 1))
        size == Parse(SizeText, SubSeq(ln, k + 1, Len(ln)))
    IN  IF Len(st.g) = 0 THEN [st EXCEPT !.err = "missing file group"]
        ELSE IF k = 0 \/ digest = 0 THEN [st EXCEPT !.err = "invalid digest"]
        ELSE IF size = 0 THEN [st EXCEPT !.err = "invalid size"]
        ELSE [st EXCEPT !.g = << >>,
                        !.groups = Append(@, [i \in 1..Len(st.g) |->
                                      [st.g[i] EXCEPT !.digest = digest, !.size = size]])]

RECURSIVE readLines(_, _)
readLines(st, lines) ==
    IF lines = << >> \/ st.err # "" \/ st.panic THEN st
    ELSE LET ln == Head(lines)
         IN  IF Len(ln) >= 2 /\ SubSeq(ln, 1, 2) = << "\t", "\t" >>
             THEN readLines(readTrailer(st, SubSeq(ln, 3, Len(ln))), Tail(lines))
             ELSE readLines(readFile(st, ln), Tail(lines))

\* read: [err, panic, root, groups]; the groups hold File records and are
\* empty unless err = "" and panic = FALSE
read(text) ==
    LET lines == ScanLines(text)
        herr == readHeader(lines)
        st == readLines([err |-> "", panic |-> FALSE, g |-> << >>, groups |-> << >>],
                        SubSeq(lines, 3, Len(lines)))
    IN  IF herr # "" THEN [err |-> herr, panic |-> FALSE, root |-> << >>, groups |-> << >>]
        ELSE IF st.err # "" \/ st.panic
             THEN [err |-> st.err, panic |-> st.panic, root |-> << >>, groups |-> << >>]
        ELSE IF Len(st.g) # 0
             THEN [err |-> "incomplete final group", panic |-> FALSE, root |-> << >>,
                   groups |-> << >>]
        ELSE [err |-> "", panic |-> FALSE, root |-> lines[2], groups |-> st.groups]

\* ------------------------------------------------------------------------
\* Tree (index/tree.go, second part): [root, dirs, idx]
\*   dirs: directory path -> [dirs, files, atom, totalDirs, totalFiles,
\*         uniqueFiles]; sub-directories are paths, files are ids
\*   idx:  digest -> group
\* ------------------------------------------------------------------------

NoAtom == EmptyPath

NewDir(ds, fs) ==
    [dirs |-> ds, files |-> fs, atom |-> NoAtom,
     totalDirs |-> 0, totalFiles |-> 0, uniqueFiles |-> 0]

Put(D, k, v) == [q \in DOMAIN D \cup {k} |-> IF q = k THEN v ELSE D[q]]

RECURSIVE LinkUp(_, _)
\* the loop of addFile that creates the missing ancestors of directory d
LinkUp(D, d) ==
    IF d = Root THEN D
    ELSE LET name == dir(d)
         IN  IF name \in DOMAIN D
             THEN [D EXCEPT ![name].dirs = Append(@, d)]
             ELSE LinkUp(Put(D, name, NewDir(<< d >>, << >>)), name)

addFile(D, F, id) ==
    LET name == dir(F[id].path)
    IN  IF name \in DOMAIN D
        THEN [D EXCEPT ![name].files = Append(@, id)]
        ELSE LinkUp(Put(D, name, NewDir(<< >>, << id >>)), name)

RECURSIVE AddFiles(_, _, _)
\* addFile for every non-gone file of a group, in order
AddFiles(D, F, g) ==
    IF g = << >> THEN D
    ELSE IF IsGone(F[Head(g)].flag) THEN AddFiles(D, F, Tail(g))
    ELSE AddFiles(addFile(D, F, Head(g)), F, Tail(g))

RECURSIVE BumpUnique(_, _)
BumpUnique(D, ps) ==
    IF ps = << >> THEN D
    ELSE BumpUnique([D EXCEPT ![Head(ps)].uniqueFiles = @ + 1], Tail(ps))

\* GroupDirs that also counts the files that are gone
GroupDirsWithGone(F, g) == [i \in 1..Len(g) |-> dir(F[g[i]].path)]
GroupDirs(F, g) ==
    LET NotGone(id) == ~IsGone(F[id].flag)
        live == SelectSeq(g, NotGone)
    IN  [i \in 1..Len(live) |-> dir(F[live[i]].path)]

RECURSIVE AddGroups(_, _, _)
\* the first loop of ToTree over x.groups: [panic, dirs, idx]
AddGroups(T, F, groups) ==
    IF groups = << >> \/ T.panic THEN T
    ELSE LET g == Head(groups)
             k == F[g[1]].digest
             D1 == AddFiles(T.dirs, F, g)
             D2 == BumpUnique(D1, uniqueDirsForEach(GroupDirs(F, g)))
         IN  IF k \in DOMAIN T.idx
             THEN [T EXCEPT !.panic = TRUE]
             ELSE AddGroups([panic |-> FALSE, dirs |-> D2, idx |-> Put(T.idx, k, g)],
                            F, Tail(groups))

EmptyMap == [q \in {} |-> {}]

\* ToTree up to the start of the sort workers
ToTreeBuild(x, F) ==
    AddGroups([panic |-> FALSE, dirs |-> Put(EmptyMap, Root, NewDir(<< >>, << >>)),
               idx |-> EmptyMap], F, x.groups)

isAtomic(name) ==
    name = << ".", "g", "i", "t" >> \/ name = << ".", "s", "v", "n" >>

\* the comparison of the worker's first sort: sub-directories by base name
dirBaseCmp(a, b) ==
    LET c == CompareStr(base(a), base(b)) IN IF c # 0 THEN c ELSE PanicCmp

\* the comparison of the worker's second sort: files by base name
fileBaseCmp(F, a, b) ==
    LET c == CompareStr(base(F[a].path), base(F[b].path)) IN IF c # 0 THEN c ELSE PanicCmp

SortDirFiles(F, ids) ==
    LET Cmp(a, b) == fileBaseCmp(F, a, b) IN InsertionSort(Cmp, ids)

RECURSIVE SumOver(_, _)
SumOver(f, s) == IF s = << >> THEN 0 ELSE f[Head(s)] + SumOver(f, Tail(s))

RECURSIVE updateCounts(_, _)
\* dir.updateCounts on directory d: the directory map with the counts of d's
\* sub-tree filled in
updateCounts(D, d) ==
    LET RECURSIVE Kids(_, _)
        Kids(DD, cs) == IF cs = << >> THEN DD ELSE Kids(updateCounts(DD, Head(cs)), Tail(cs))
        D1 == Kids(D, D[d].dirs)
        td == Len(D[d].dirs) + SumOver([c \in Seq2Set(D[d].dirs) |-> D1[c].totalDirs], D[d].dirs)
        tf == Len(D[d].files) + SumOver([c \in Seq2Set(D[d].dirs) |-> D1[c].totalFiles], D[d].dirs)
    IN  [D1 EXCEPT ![d].totalDirs = td, ![d].totalFiles = tf]

CountsPanic(D) == \E d \in DOMAIN D : D[d].totalFiles < D[d].uniqueFiles

\* ------------------------------------------------------------------------
\* dirStack and the duplicate test (index/tree.go 636-665, unnamed/part_023)
\* ------------------------------------------------------------------------

Reverse(s) == [i \in 1..Len(s) |-> s[Len(s) + 1 - i]]

\* dirStack.push: ds in reverse order on top of the stack
StackPush(st, ds) == st \o Reverse(ds)

RECURSIVE StackWalk(_, _)
\* the directories dirStack.next returns until the stack st is empty
StackWalk(D, st) ==
    IF st = << >> THEN << >>
    ELSE LET n == Len(st)
             d == st[n]
         IN  << d >> \o StackWalk(D, StackPush(SubSeq(st, 1, n - 1), D[d].dirs))

RECURSIVE Concat(_)
Concat(ss) == IF ss = << >> THEN << >> ELSE Head(ss) \o Concat(Tail(ss))

\* the files isDup visits under root, in the order it visits them
SubtreeFiles(D, root) ==
    LET ds == StackWalk(D, << root >>)
    IN  Concat([i \in 1..Len(ds) |-> D[ds[i]].files])

RECURSIVE Categorize(_, _, _, _, _)
\* the loop of isDup over the files fs, with the state acc = [ok, safe, lost,
\* ignored]; ok turns FALSE at a return false
Categorize(T, F, root, maxLost, st) ==
    IF st.fs = << >> \/ ~st.ok THEN st
    ELSE LET id == Head(st.fs)
             f == F[id]
             rest == Tail(st.fs)
             g == IF f.digest \in DOMAIN T.idx THEN T.idx[f.digest] ELSE << >>
             hasSafe == Len(g) > 1 /\ \E i \in 1..Len(g) : isSafeOutsideOf(F[g[i]], root)
         IN  IF PersistOf(f.flag) # 0 /\ IsGone(f.flag) THEN
                 Categorize(T, F, root, maxLost, [st EXCEPT !.fs = rest])
             ELSE IF PersistOf(f.flag) # 0 /\ Keep(f.flag) THEN
                 [st EXCEPT !.ok = FALSE]
             ELSE IF canIgnore(f) THEN
                 Categorize(T, F, root, maxLost,
                            [st EXCEPT !.fs = rest, !.ignored = Append(@, id)])
             ELSE IF hasSafe THEN
                 Categorize(T, F, root, maxLost,
                            [st EXCEPT !.fs = rest, !.safe = @ \cup {f.digest}])
             ELSE IF Cardinality(st.lost \cup {f.digest}) > maxLost THEN
                 [st EXCEPT !.ok = FALSE, !.lost = @ \cup {f.digest}]
             ELSE
                 Categorize(T, F, root, maxLost,
                            [st EXCEPT !.fs = rest, !.lost = @ \cup {f.digest}])

\* isDup with the safety margin off by one: |safe| >= |lost| squared
isDupLoose(T, F, p, maxLost) ==
    LET no == [ok |-> FALSE, fs |-> << >>, safe |-> {}, lost |-> {}, ignored |-> << >>]
    IN  IF p \notin DOMAIN T.dirs THEN no
        ELSE IF T.dirs[p].atom # NoAtom /\ T.dirs[p].atom # p THEN no
        ELSE LET st == Categorize(T, F, p, maxLost,
                           [ok |-> TRUE, fs |-> SubtreeFiles(T.dirs, p),
                            safe |-> {}, lost |-> {}, ignored |-> << >>])
             IN  IF ~st.ok THEN st
                 ELSE [st EXCEPT !.ok =
                         Cardinality(st.safe) >= Cardinality(st.lost) * Cardinality(st.lost)]

\* dedup.isDup(tree, p, maxLost): [ok, safe, lost, ignored]
isDup(T, F, p, maxLost) ==
    LET no == [ok |-> FALSE, fs |-> << >>, safe |-> {}, lost |-> {}, ignored |-> << >>]
    IN  IF p \notin DOMAIN T.dirs THEN no
        ELSE IF T.dirs[p].atom # NoAtom /\ T.dirs[p].atom # p THEN no
        ELSE LET st == Categorize(T, F, p, maxLost,
                           [ok |-> TRUE, fs |-> SubtreeFiles(T.dirs, p),
                            safe |-> {}, lost |-> {}, ignored |-> << >>])
             IN  IF ~st.ok THEN st
                 ELSE [st EXCEPT !.ok =
                         Cardinality(st.safe) > Cardinality(st.lost) * Cardinality(st.lost)]

\* altScore's two assertions on the file counts
altCountsOk(T, d, alt, safe, rem) ==
    /\ 0 < safe /\ safe <= T.dirs[alt].uniqueFiles
    /\ safe <= rem /\ rem <= T.dirs[d].uniqueFiles

\* altScore(alt, safe, rem) of directory d as an exact fraction << num, den >>;
\* den = 0 stands for the division by a zero distance
altScore(T, d, alt, safe, rem) ==
    LET a == T.dirs[alt]
        u == a.uniqueFiles
        tf == a.totalFiles
        td == 1 + a.totalDirs
        ds == dist(d, commonRoot(d, alt))
        half == IF contains(alt, d) THEN 2 ELSE 1
        num == 5 * safe * safe * tf * td * ds
                 + safe * rem * u * td * ds
                 + rem * u * tf * ds
                 + rem * u * tf * td
    IN  << num, 8 * rem * u * tf * td * ds * half >>

\* the assertion on the score: 0 <= score <= 1
scoreOk(sc) == sc[2] > 0 /\ 0 <= sc[1] /\ sc[1] <= sc[2]

scoreLess(a, b) == a[1] * b[2] < b[1] * a[2]
scoreEq(a, b) == a[1] * b[2] = b[1] * a[2]

\* the per-directory counts of one round of dedup: for every digest of safe,
\* the unique directories (atoms substituted) of its safe files outside root
RECURSIVE AltDirsOf(_, _, _, _)
AltDirsOf(T, F, root, g) ==
    IF g = << >> THEN << >>
    ELSE LET f == F[Head(g)]
             d == dir(f.path)
             a == IF T.dirs[d].atom # NoAtom THEN T.dirs[d].atom ELSE d
         IN  (IF isSafeOutsideOf(f, root) THEN << a >> ELSE << >>)
               \o AltDirsOf(T, F, root, Tail(g))

\* the counts of a round taken per safe file instead of per digest
safeCountPerFile(T, F, root, safe) ==
    LET visited(id) ==
            Seq2Set(uniqueDirsForEach(AltDirsOf(T, F, root, << id >>)))
        ids == UNION { Seq2Set(T.idx[g]) : g \in safe }
        all == UNION { visited(id) : id \in ids }
    IN  [p \in all |-> Cardinality({ id \in ids : p \in visited(id) })]

safeCount(T, F, root, safe) ==
    LET visited(g) == Seq2Set(uniqueDirsForEach(AltDirsOf(T, F, root, T.idx[g])))
        all == UNION { visited(g) : g \in safe }
    IN  [p \in all |-> Cardinality({ g \in safe : p \in visited(g) })]

\* the best alternate of one round: highest score, then least path
bestAlt(T, root, cnt, rem) ==
    LET sc(p) == altScore(T, root, p, cnt[p], rem)
    IN  CHOOSE p \in DOMAIN cnt :
          \A q \in DOMAIN cnt \ {p} :
             \/ scoreLess(sc(q), sc(p))
             \/ scoreEq(sc(q), sc(p)) /\ pathCmp(p, q) < 0

RECURSIVE SelectAlts(_, _, _, _, _)
RECURSIVE SelectRound(_, _, _, _, _, _)
RECURSIVE SelectCover(_, _, _, _, _, _)
\* the loop of dedup that selects alternates: st = [panic, alts, safe (the
\* digest -> alternate map)], rem = the digests still to cover
SelectAlts(T, F, root, rem, st) ==
    IF rem = {} \/ st.panic THEN st
    ELSE SelectRound(T, F, root, rem, st, safeCount(T, F, root, rem))

\* one round with the per-directory counts cnt: the panics of the round, or
\* the best alternate
SelectRound(T, F, root, rem, st, cnt) ==
    LET n == Cardinality(rem)
        noAlt == \E g \in rem : AltDirsOf(T, F, root, T.idx[g]) = << >>
        bad == \E p \in DOMAIN cnt :
                  \/ ~altCountsOk(T, root, p, cnt[p], n)
                  \/ ~scoreOk(altScore(T, root, p, cnt[p], n))
    IN  IF noAlt \/ bad THEN [st EXCEPT !.panic = TRUE]
        ELSE SelectCover(T, F, root, rem, st, bestAlt(T, root, cnt, n))

\* the digests with a safe file under the best alternate b are covered by it
SelectCover(T, F, root, rem, st, b) ==
    LET covered == { g \in rem :
                       \E i \in 1..Len(T.idx[g]) : isSafeIn(F[T.idx[g][i]], b) }
    IN  SelectAlts(T, F, root, rem \ covered,
                   [st EXCEPT !.alts = Append(@, b),
                              !.safe = [g \in DOMAIN @ \cup covered |->
                                          IF g \in covered THEN b ELSE @[g]]])

\* the loop over safeCount without the comparison of paths on equal scores
bestAltLoopNoTie(T, root, cnt, rem, order) ==
    LET RECURSIVE Loop(_, _)
        Loop(i, best) ==
            IF i > Len(order) THEN best
            ELSE LET p == order[i]
                     s == altScore(T, root, p, cnt[p], rem)
                 IN  IF best = NoAtom \/ scoreLess(altScore(T, root, best, cnt[best], rem), s)
                     THEN Loop(i + 1, p)
                     ELSE Loop(i + 1, best)
    IN  Loop(1, NoAtom)

\* lines 190-198: the loop over safeCount in the order the map iteration
\* yields its directories; maxScore starts at -Inf and bestAlt at nil (NoAtom)
bestAltLoop(T, root, cnt, rem, order) ==
    LET RECURSIVE Loop(_, _)
        Loop(i, best) ==
            IF i > Len(order) THEN best
            ELSE LET p == order[i]
                     s == altScore(T, root, p, cnt[p], rem)
                 IN  IF \/ best = NoAtom
                        \/ scoreLess(altScore(T, root, best, cnt[best], rem), s)
                        \/ ( /\ scoreEq(altScore(T, root, best, cnt[best], rem), s)
                             /\ pathCmp(p, best) < 0 )
                     THEN Loop(i + 1, p)
                     ELSE Loop(i + 1, best)
    IN  Loop(1, NoAtom)

\* lines 171-211 with the map iteration of every round following the
\* ranking ord of the directories: st = [panic, alts, safe, rounds], where
\* rounds lists the arguments of the round's altScore calls as
\* [rem, cnt (directory -> safe count)]
RECURSIVE SelectAltsIn(_, _, _, _, _, _)
SelectAltsIn(T, F, root, rem, st, ord) ==
    IF rem = {} \/ st.panic THEN st
    ELSE LET cnt == safeCount(T, F, root, rem)
             n == Cardinality(rem)
             noAlt == \E g \in rem : AltDirsOf(T, F, root, T.idx[g]) = << >>
             bad == \E p \in DOMAIN cnt :
                       \/ ~altCountsOk(T, root, p, cnt[p], n)
                       \/ ~scoreOk(altScore(T, root, p, cnt[p], n))
             InCnt(p) == p \in DOMAIN cnt
             b == bestAltLoop(T, root, cnt, n, SelectSeq(ord, InCnt))
             covered == { g \in rem :
                            \E i \in 1..Len(T.idx[g]) : isSafeIn(F[T.idx[g][i]], b) }
             st1 == [st EXCEPT !.rounds = Append(@, [rem |-> n, cnt |-> cnt])]
         IN  IF noAlt \/ bad THEN [st1 EXCEPT !.panic = TRUE]
             ELSE SelectAltsIn(T, F, root, rem \ covered,
                     [st1 EXCEPT !.alts = Append(@, b),
                                 !.safe = [g \in DOMAIN @ \cup covered |->
                                             IF g \in covered THEN b ELSE @[g]]],
                     ord)

SortPaths(ps) == LET Cmp(a, b) == pathCmp(a, b) IN InsertionSort(Cmp, ps).s

SetToSeq(S) ==
    CHOOSE q \in [1..Cardinality(S) -> S] : \A i, j \in 1..Cardinality(S) : i # j => q[i] # q[j]

\* the Dup of directory p with the selection sel of alternates
MakeDup(F, p, r, sel) ==
    [panic |-> sel.panic,
     dir |-> p,
     alts |-> SortPaths(sel.alts),
     lost |-> FilesSort(F, SetToSeq({ id \in DOMAIN F :
                                        F[id].digest \in r.lost /\ existsIn(F[id], p) })).s,
     ignored |-> FilesSort(F, r.ignored).s,
     safe |-> sel.safe]

\* dedup.dedup() after isDup(p) returned r with r.ok: the Dup
\*   [panic, dir, alts, lost, ignored, safe]
dedup(T, F, p, r) ==
    MakeDup(F, p, r,
            SelectAlts(T, F, p, r.safe, [panic |-> FALSE, alts |-> << >>, safe |-> EmptyMap]))

\* Dup.FileMap(alt) of the Dup u, alt = EmptyPath for "": [panic, m], where m
\* maps the ids of the files of u.dir to the id of the safe file found
FileMap(T, F, u, alt) ==
    IF alt # EmptyPath /\ alt \notin DOMAIN T.dirs THEN [panic |-> FALSE, m |-> EmptyMap]
    ELSE LET gs == { g \in DOMAIN u.safe : alt = EmptyPath \/ u.safe[g] = alt }
             SafeAt(g) == { i \in 1..Len(T.idx[g]) : isSafeIn(F[T.idx[g][i]], u.safe[g]) }
             safeOf(g) == T.idx[g][CHOOSE i \in SafeAt(g) : \A j \in SafeAt(g) : i <= j]
             from == { id \in UNION { Seq2Set(T.idx[g]) : g \in gs } : existsIn(F[id], u.dir) }
         IN  IF \E g \in gs : SafeAt(g) = {} THEN [panic |-> TRUE, m |-> EmptyMap]
             ELSE [panic |-> FALSE, m |-> [id \in from |-> safeOf(F[id].digest)]]

\* ------------------------------------------------------------------------
\* The scanned file system and the pure parts of Scan / Rescan
\* (unnamed/part_021).  A source is the list of the entries fs.WalkDir
\* visits when nothing is skipped, in its (lexical, depth-first) order:
\*   [path, kind ("dir", "file" or "other"), size, modTime, content, ok]
\* content is the digest of the file's bytes, ok whether it can be read.
\* ------------------------------------------------------------------------

\* the name fs.WalkDir passes to the callback: no separator after a directory
WalkName(e) ==
    IF e.kind = "dir" /\ e.path # Root THEN SubSeq(e.path, 1, Len(e.path) - 1) ELSE e.path

\* line 141: the names the index cannot store
invalidName(name) ==
    Len(name) = 0 \/ name[1] = "\t" \/ IndexByteFrom(name, "\n", 1) # 0

\* fs.SkipDir returned for entry i: the walk skips the rest of the directory
\* (entry i itself if it is a directory, else its parent) and goes on with
\* the first entry outside of it
SkipDirNext(S, i) ==
    LET d == IF S[i].kind = "dir" THEN S[i].path ELSE dir(S[i].path)
        after == { j \in (i + 1)..Len(S) : ~contains(d, S[j].path) }
    IN  IF after = {} THEN Len(S) + 1
        ELSE CHOOSE j \in after : \A k \in after : j <= k

RECURSIVE BinarySearch(_, _, _, _, _)
\* slices.BinarySearchFunc over the file ids fs by base name: the position
\* found, or 0
BinarySearch(F, fs, name, lo, hi) ==
    IF lo >= hi THEN
        (IF lo <= Len(fs) /\ CompareStr(base(F[fs[lo]].path), name) = 0 THEN lo ELSE 0)
    ELSE LET h == (lo + hi - 1) \div 2
         IN  IF CompareStr(base(F[fs[h]].path), name) < 0
             THEN BinarySearch(F, fs, name, h + 1, hi)
             ELSE BinarySearch(F, fs, name, lo, h)

\* Tree.file: the id of the file with path p, or 0
treeFile(T, F, p) ==
    IF p = EmptyPath \/ dir(p) \notin DOMAIN T.dirs \/ isDir(p) THEN 0
    ELSE LET fs == T.dirs[dir(p)].files
             k == BinarySearch(F, fs, base(p), 1, Len(fs) + 1)
         IN  IF k = 0 THEN 0 ELSE fs[k]

\* File.isSame with the negation slipped onto the modification time
isSameNegated(f, e) ==
    e.kind = "file" /\ e.size = f.size /\ e.modTime # f.modTime
\* File.isSame against the entry's FileInfo
isSame(f, e) ==
    e.kind = "file" /\ e.size = f.size /\ e.modTime = f.modTime

\* line 148 without the Same bit
reuseFlagNoSame(a) == a - GoneOf(a)
\* line 148: f.flag&^flagGone | flagSame
reuseFlag(a) == (a - GoneOf(a) - SameOf(a)) + flagSame

\* line 104 testing for the Keep mark instead of any mark
keepsGoneOnlyKeep(a) == MarkOf(a) = flagKeep
\* line 104: a gone record stays in the index if f.flag&flagKeep != 0
keepsGone(a) == MarkOf(a) # 0

\* Hasher.Read(fsys, name, true) of a readable regular file
HasherRead(e) ==
    [path |-> e.path, digest |-> e.content, size |-> e.size, modTime |-> e.modTime,
     flag |-> flagNone]

\* the ids of the Tree's digest map
IdxIds(T) == UNION { Seq2Set(T.idx[g]) : g \in DOMAIN T.idx }

\* lines 98-111 without all.Sort()
RescanFinishUnsorted(F, T, all) ==
    LET old == IdxIds(T)
        F2 == [id \in DOMAIN F |->
                 IF id \in old /\ SameOf(F[id].flag) = 0
                 THEN [F[id] EXCEPT !.flag = (@ - GoneOf(@)) + flagGone]
                 ELSE F[id]]
        kept == { id \in old : SameOf(F[id].flag) = 0 /\ keepsGone(F2[id].flag) }
        ix == New(<< >>, F2, all \o SetToSeq(kept))
    IN  [panic |-> ix.panic, files |-> F2, index |-> [root |-> ix.root, groups |-> ix.groups]]
\* lines 98-111: the old records that are not Same become Gone and stay if
\* they are marked; the list is sorted and grouped.  The result is
\*   [panic, files (the heap), index]
RescanFinish(F, T, all) ==
    LET old == IdxIds(T)
        F2 == [id \in DOMAIN F |->
                 IF id \in old /\ SameOf(F[id].flag) = 0
                 THEN [F[id] EXCEPT !.flag = (@ - GoneOf(@)) + flagGone]
                 ELSE F[id]]
        kept == { id \in old : SameOf(F[id].flag) = 0 /\ keepsGone(F2[id].flag) }
        sorted == FilesSort(F2, all \o SetToSeq(kept))
        ix == New(<< >>, F2, sorted.s)
    IN  [panic |-> sorted.panic \/ ix.panic, files |-> F2,
         index |-> [root |-> ix.root, groups |-> ix.groups]]

\* Tree.ToIndex over the files that still exist
ToIndexNoGone(T, F) ==
    LET live == { id \in IdxIds(T) : ~IsGone(F[id].flag) }
        sorted == FilesSort(F, SetToSeq(live))
        ix == New(T.root, F, sorted.s)
    IN  [panic |-> sorted.panic \/ ix.panic, root |-> ix.root, groups |-> ix.groups]
\* Tree.ToIndex
ToIndex(T, F) ==
    LET sorted == FilesSort(F, SetToSeq(IdxIds(T)))
        ix == New(T.root, F, sorted.s)
    IN  [panic |-> sorted.panic \/ ix.panic, root |-> ix.root, groups |-> ix.groups]

\* what ToTree leaves when its workers are done: every directory's lists
\* sorted by base name and the counts filled in (no directory of the
\* scanner's inputs is atomic)
ToTreeSorted(x, F) ==
    LET T == ToTreeBuild(x, F)
        DCmp(a, b) == dirBaseCmp(a, b)
        D == [d \in DOMAIN T.dirs |->
                [T.dirs[d] EXCEPT !.dirs = InsertionSort(DCmp, @).s,
                                  !.files = SortDirFiles(F, @).s]]
    IN  [root |-> x.root, dirs |-> updateCounts(D, Root), idx |-> T.idx]

\* lines 432-439 when no sort worker runs beside them: every directory named
\* .git or .svn, or below one, gets the outermost such directory as its atom
WithAtoms(D) ==
    LET Atoms(d) == { a \in DOMAIN D : a # Root /\ contains(a, d) /\ isAtomic(base(a)) }
    IN  [d \in DOMAIN D |->
           IF Atoms(d) = {} THEN D[d]
           ELSE [D[d] EXCEPT !.atom =
                   CHOOSE a \in Atoms(d) : \A b \in Atoms(d) : Len(a) <= Len(b)]]

\* ------------------------------------------------------------------------
\* Mark operations (index/tree.go 466-504, index/path.go 48-56)
\* ------------------------------------------------------------------------

\* eitherPath: [panic, dir, file]; with c the clean path and a '/' added,
\* file is c[:len(p)-1], which panics when that is longer than c
eitherPath(p) ==
    LET c == cleanPath(p)
        cs == c \o << "/" >>
    IN  IF isDir(c) THEN [panic |-> FALSE, dir |-> c, file |-> EmptyPath]
        ELSE IF c = EmptyPath THEN [panic |-> FALSE, dir |-> EmptyPath, file |-> EmptyPath]
        ELSE IF Len(p) - 1 > Len(cs) THEN [panic |-> TRUE, dir |-> cs, file |-> EmptyPath]
        ELSE [panic |-> FALSE, dir |-> cs, file |-> SubSeq(cs, 1, Len(p) - 1)]

\* a | b on the two bits of a mark
OrMark(a, b) ==
    (IF a % 2 = 1 \/ b % 2 = 1 THEN 1 ELSE 0)
      + (IF a \div 2 = 1 \/ b \div 2 = 1 THEN 2 ELSE 0)

\* set that tests for the Keep mark alone
markSetUnlessKeep(a, flag) ==
    IF MarkOf(a) # flagKeep THEN (a - MarkOf(a)) + OrMark(MarkOf(a), flag) ELSE a
\* set that marks whatever the file carries
markSetAlways(a, flag) == (a - MarkOf(a)) + OrMark(MarkOf(a), flag)
\* set: f.flag |= flag if f.flag&flagKeep == 0
markSet(a, flag) ==
    IF MarkOf(a) = 0 THEN (a - MarkOf(a)) + OrMark(MarkOf(a), flag) ELSE a

\* Tree.mark: [panic, err, files]
mark(T, F, name, flag) ==
    LET e == eitherPath(name)
        under == IF e.dir \in DOMAIN T.dirs
                 THEN Seq2Set(SubtreeFiles(T.dirs, e.dir)) ELSE {}
        f == IF e.panic THEN 0 ELSE treeFile(T, F, e.file)
    IN  IF e.panic THEN [panic |-> TRUE, err |-> "", files |-> F]
        ELSE IF e.dir \in DOMAIN T.dirs THEN
            [panic |-> FALSE, err |-> "",
             files |-> [id \in DOMAIN F |->
                          IF id \in under THEN [F[id] EXCEPT !.flag = markSet(@, flag)]
                          ELSE F[id]]]
        ELSE IF f # 0 THEN
            [panic |-> FALSE, err |-> "", files |-> [F EXCEPT ![f].flag = markSet(@, flag)]]
        ELSE [panic |-> FALSE, err |-> "ErrNotExist", files |-> F]

\* ------------------------------------------------------------------------
\* State
\* ------------------------------------------------------------------------

VARIABLES
    files,      \* the heap of File records: id -> File
    x,          \* the Index handed to ToTree
    t,          \* the Tree: [root, dirs, idx]
    pc,         \* where the calling goroutine is
    tt,         \* ToTree's locals: [todo, d, subtree, pushX, pushJ]
    sortCh,     \* ToTree's sort channel: [buf, closed]
    sorter,     \* ToTree's sort workers: w -> [pc, d, j, tmp]
    du,         \* Dups' arguments and locals: [root, maxDups, maxLost, q, qnil, dups]
    nextCh,     \* Dups' channel next: [buf, closed]
    dupCh,      \* Dups' channel dup: [buf, closed]
    todoCh,     \* Dups' channel todo: the buffered lists of directories
    wg,         \* Dups' WaitGroup counter
    worker,     \* Dups' workers: w -> [pc, d, val]
    closer,     \* where the goroutine that closes next and dup is
    ret,        \* what Dups returned
    src,        \* the file system Scan / Rescan walks
    opt,        \* the call: [tree, errFn, nh] (a Tree? an error callback? CPUs)
    wk,         \* the walker: [pc, i, val]
    hs,         \* the hashers: h -> [pc, i, val]
    hashCh,     \* the walker's channel hash: [buf, closed]
    fileCh,     \* the channel file: [buf, closed]
    werrCh,     \* the channel werr: the buffered errors
    canceled,   \* whether ctx.Done() is closed, and what was running then
    rs,         \* Rescan's locals and result: [all, errs, index, err, old, hashed]
    buf,        \* the bytes Index.write wrote, which read consumes
    call        \* the last sequential call and its result: [op, arg, err, out]

toTreeVars == << tt, sortCh, sorter >>

dupsVars == << du, nextCh, dupCh, todoCh, wg, worker, closer, ret >>

scanVars == << src, opt, wk, hs, hashCh, fileCh, werrCh, canceled, rs >>

apiVars == << buf, call >>

taskVars == << toTreeVars, dupsVars, scanVars >>

vars == << files, x, t, pc, tt, sortCh, sorter,
           du, nextCh, dupCh, todoCh, wg, worker, closer, ret,
           src, opt, wk, hs, hashCh, fileCh, werrCh, canceled, rs, buf, call >>

\* ------------------------------------------------------------------------
\* Bounds and inputs
\* ------------------------------------------------------------------------

\* runtime.NumCPU()
NumCPU == 2

\* the number of distinct digests among the files of an Index
MaxDigest == 3

\* the number of files of an Index that carry a flag
MaxMarked == 1

\* min(runtime.NumCPU(), 8): capacity of the sort channel, number of workers
SortCap == IF NumCPU < 8 THEN NumCPU ELSE 8

SortWorkers == 1..SortCap

\* The file paths of the Indexes the Tree is built from, each layout in
\* Files.Sort order, and the number of its files that may carry a flag.
LayoutAB ==        \* A/a  A/b  A/c  B/a  B/b
    [paths |-> << << "A", "/", "a" >>, << "A", "/", "b" >>, << "A", "/", "c" >>,
                  << "B", "/", "a" >>, << "B", "/", "b" >> >>,
     marked |-> MaxMarked]

LayoutABy ==       \* A/a  A/b  B/a  B/b  y
    [paths |-> << << "A", "/", "a" >>, << "A", "/", "b" >>,
                  << "B", "/", "a" >>, << "B", "/", "b" >>, << "y" >> >>,
     marked |-> MaxMarked]

LayoutGit ==       \* .git/a/f  .git/b/g  .git/c/h  y
    [paths |-> << << ".", "g", "i", "t", "/", "a", "/", "f" >>,
                  << ".", "g", "i", "t", "/", "b", "/", "g" >>,
                  << ".", "g", "i", "t", "/", "c", "/", "h" >>,
                  << "y" >> >>,
     marked |-> 0]

LayoutNested ==    \* X/.git/a/.svn/k  X/.git/f  X/y
    [paths |-> << << "X", "/", ".", "g", "i", "t", "/", "a", "/", ".", "s", "v", "n", "/", "k" >>,
                  << "X", "/", ".", "g", "i", "t", "/", "f" >>,
                  << "X", "/", "y" >> >>,
     marked |-> 0]

LayoutIgnore ==    \* A/Thumbs.db  A/a  B/a
    [paths |-> << << "A", "/", "T", "h", "u", "m", "b", "s", ".", "d", "b" >>,
                  << "A", "/", "a" >>, << "B", "/", "a" >> >>,
     marked |-> 0]

LayoutDeep ==      \* A/B/a  y
    [paths |-> << << "A", "/", "B", "/", "a" >>, << "y" >> >>,
     marked |-> MaxMarked]

TreeLayouts == { LayoutAB, LayoutABy, LayoutGit, LayoutNested, LayoutIgnore, LayoutDeep }

\* the flags a file of a loaded Index can carry (a junk file is treated like
\* a dup file by everything modelled here, and a gone file like every other
\* gone file)
IndexFlags == { flagNone, flagDup, flagKeep, flagKeep + flagGone }

\* digest assignments to n files: file i gets a digest no greater than one
\* more than the digests before it (each partition of the files once)
DigestChoices(n) ==
    { dg \in [1..n -> 1..MaxDigest] :
        \A i \in 1..n : dg[i] = 1 \/ \E j \in 1..(i - 1) : dg[j] >= dg[i] - 1 }

\* flag assignments to n files of which at most m carry a flag
FlagChoices(n, m) ==
    { fl \in [1..n -> IndexFlags] :
        Cardinality({ i \in 1..n : fl[i] # flagNone }) <= m }

IdsOf(F) == DOMAIN F

\* ------------------------------------------------------------------------
\* ToTree (index/tree.go 382-451)
\* ------------------------------------------------------------------------

IdleTT == [todo |-> {}, d |-> EmptyPath, subtree |-> << >>, pushX |-> EmptyPath, pushJ |-> 0]
IdleSorter == [w \in SortWorkers |-> [pc |-> "idle", d |-> EmptyPath, j |-> 0, tmp |-> EmptyPath]]
IdleCh == [buf |-> << >>, closed |-> FALSE]

\* lines 382-408: the empty Index, a digest collision, or the directory map
\* and digest map, after which the sort workers start
ToTreeStart ==
    /\ pc = "ToTree"
    /\ IF x.groups = << >> THEN
           /\ t' = [root |-> x.root, dirs |-> Put(EmptyMap, Root, NewDir(<< >>, << >>)),
                    idx |-> EmptyMap]
           /\ pc' = "tree"
           /\ UNCHANGED << tt, sorter >>
       ELSE
           LET T == ToTreeBuild(x, files)
           IN  IF T.panic THEN
                   /\ pc' = "panic"
                   /\ UNCHANGED << t, tt, sorter >>
               ELSE
                   /\ t' = [root |-> x.root, dirs |-> T.dirs, idx |-> T.idx]
                   /\ tt' = [IdleTT EXCEPT !.todo = DOMAIN T.dirs]
                   /\ sorter' = [w \in SortWorkers |-> [IdleSorter[w] EXCEPT !.pc = "recv"]]
                   /\ pc' = "range"
    /\ UNCHANGED << files, x, sortCh >>
    /\ UNCHANGED dupsVars
    /\ UNCHANGED << scanVars, apiVars >>

\* lines 434-436: the next directory of the map, in any order, is sent to the
\* workers; an atomic directory without an atom starts the stamping
RangeSend(d) ==
    /\ pc = "range"
    /\ d \in tt.todo
    /\ Len(sortCh.buf) < SortCap
    /\ sortCh' = [sortCh EXCEPT !.buf = Append(@, d)]
    /\ IF t.dirs[d].atom = NoAtom /\ isAtomic(base(d))
       THEN /\ tt' = [tt EXCEPT !.todo = @ \ {d}, !.d = d, !.subtree = << d >>]
            /\ pc' = "stamp"
       ELSE /\ tt' = [tt EXCEPT !.todo = @ \ {d}]
            /\ pc' = "range"
    /\ UNCHANGED << files, x, t, sorter >>
    /\ UNCHANGED dupsVars
    /\ UNCHANGED << scanVars, apiVars >>

\* lines 437-439 with dirStack.next: pop the top directory and push its
\* sub-directories; a list of two or more is read one element at a time
StampNext ==
    /\ pc = "stamp"
    /\ tt.subtree # << >>
    /\ LET n == Len(tt.subtree)
           top == tt.subtree[n]
           rest == SubSeq(tt.subtree, 1, n - 1)
           ds == t.dirs[top].dirs
       IN  IF Len(ds) <= 1 THEN
               /\ t' = [t EXCEPT !.dirs[top].atom = tt.d]
               /\ tt' = [tt EXCEPT !.subtree = rest \o ds]
               /\ pc' = IF rest \o ds = << >> THEN "range" ELSE "stamp"
           ELSE
               /\ tt' = [tt EXCEPT !.subtree = rest, !.pushX = top, !.pushJ = Len(ds)]
               /\ pc' = "push"
               /\ t' = t
    /\ UNCHANGED << files, x, sortCh, sorter >>
    /\ UNCHANGED dupsVars
    /\ UNCHANGED << scanVars, apiVars >>

\* dirStack.push, one iteration of its loop: (*s)[i] = ds[j], which reads the
\* element a sort worker may be moving
PushRead ==
    /\ pc = "push"
    /\ LET v == t.dirs[tt.pushX].dirs[tt.pushJ]
       IN  IF tt.pushJ > 1 THEN
               /\ tt' = [tt EXCEPT !.subtree = Append(@, v), !.pushJ = @ - 1]
               /\ UNCHANGED << t, pc >>
           ELSE
               /\ tt' = [tt EXCEPT !.subtree = Append(@, v), !.pushJ = 0, !.pushX = EmptyPath]
               /\ t' = [t EXCEPT !.dirs[tt.pushX].atom = tt.d]
               /\ pc' = "stamp"
    /\ UNCHANGED << files, x, sortCh, sorter >>
    /\ UNCHANGED dupsVars
    /\ UNCHANGED << scanVars, apiVars >>

\* line 442
CloseSort ==
    /\ pc = "range"
    /\ tt.todo = {}
    /\ sortCh' = [sortCh EXCEPT !.closed = TRUE]
    /\ pc' = "wait"
    /\ UNCHANGED << files, x, t, tt, sorter >>
    /\ UNCHANGED dupsVars
    /\ UNCHANGED << scanVars, apiVars >>

\* the position of the next swap of insertionSortCmpFunc on data, continuing
\* with the element at index i that is being moved down from j: << i, j >>,
\* or << 0, 0 >> when the slice is sorted
RECURSIVE NextSwap(_, _, _)
NextSwap(data, i, j) ==
    IF i > Len(data) THEN << 0, 0 >>
    ELSE IF j > 1 /\ dirBaseCmp(data[j], data[j - 1]) < 0 THEN << i, j >>
    ELSE NextSwap(data, i + 1, i + 1)

\* line 417: receive a directory, or leave when the channel is closed.  A
\* directory whose d.dirs needs no swap is finished in the same step: the
\* worker then only reads d.dirs and is alone in touching d.files.
SortRecv(w) ==
    /\ sorter[w].pc = "recv"
    /\ pc # "panic"
    /\ IF sortCh.buf # << >> THEN
           LET d == Head(sortCh.buf)
               sw == NextSwap(t.dirs[d].dirs, 2, 2)
               fs == SortDirFiles(files, t.dirs[d].files)
           IN  /\ sortCh' = [sortCh EXCEPT !.buf = Tail(@)]
               /\ IF sw[1] # 0 THEN
                      /\ sorter' = [sorter EXCEPT ![w] = [pc |-> "dirs", d |-> d,
                                                          j |-> 2, tmp |-> << 2 >>]]
                      /\ UNCHANGED << t, pc >>
                  ELSE IF fs.panic THEN
                      /\ pc' = "panic"
                      /\ UNCHANGED << t, sorter >>
                  ELSE
                      /\ t' = [t EXCEPT !.dirs[d].files = fs.s]
                      /\ UNCHANGED << sorter, pc >>
       ELSE
           /\ sortCh.closed
           /\ sorter' = [sorter EXCEPT ![w].pc = "exit"]
           /\ UNCHANGED << sortCh, t, pc >>
    /\ UNCHANGED << files, x, tt >>
    /\ UNCHANGED dupsVars
    /\ UNCHANGED << scanVars, apiVars >>

\* lines 418-429: the first store of the next swap of d.dirs
\* (data[j], data[j-1] = data[j-1], data[j]); when d.dirs is sorted, d.files is
\* sorted in the same step (nothing else reads d.files here)
SortDirs(w) ==
    /\ sorter[w].pc = "dirs"
    /\ pc # "panic"
    /\ LET d == sorter[w].d
           data == t.dirs[d].dirs
           sw == NextSwap(data, sorter[w].tmp[1], sorter[w].j)
           fs == SortDirFiles(files, t.dirs[d].files)
       IN  IF sw[1] # 0 THEN
               /\ t' = [t EXCEPT !.dirs[d].dirs[sw[2]] = data[sw[2] - 1]]
               /\ sorter' = [sorter EXCEPT ![w] = [pc |-> "swap", d |-> d, j |-> sw[2],
                                                   tmp |-> << sw[1], data[sw[2]] >>]]
               /\ pc' = pc
           ELSE IF fs.panic THEN
               /\ pc' = "panic"
               /\ UNCHANGED << t, sorter >>
           ELSE
               /\ t' = [t EXCEPT !.dirs[d].files = fs.s]
               /\ sorter' = [sorter EXCEPT ![w] = [pc |-> "recv", d |-> EmptyPath,
                                                   j |-> 0, tmp |-> EmptyPath]]
               /\ pc' = pc
    /\ UNCHANGED << files, x, tt, sortCh >>
    /\ UNCHANGED dupsVars
    /\ UNCHANGED << scanVars, apiVars >>

\* the second store of the swap
SortSwap(w) ==
    /\ sorter[w].pc = "swap"
    /\ LET d == sorter[w].d
           j == sorter[w].j
       IN  /\ t' = [t EXCEPT !.dirs[d].dirs[j - 1] = sorter[w].tmp[2]]
           /\ sorter' = [sorter EXCEPT ![w] = [pc |-> "dirs", d |-> d, j |-> j - 1,
                                               tmp |-> << sorter[w].tmp[1] >>]]
    /\ UNCHANGED << files, x, pc, tt, sortCh >>
    /\ UNCHANGED dupsVars
    /\ UNCHANGED << scanVars, apiVars >>

\* lines 443-450: all workers have returned; fill in the counts
ToTreeReturn ==
    /\ pc = "wait"
    /\ \A w \in SortWorkers : sorter[w].pc = "exit"
    /\ LET D == updateCounts(t.dirs, Root)
       IN  IF CountsPanic(D) THEN pc' = "panic" /\ t' = t
           ELSE pc' = "tree" /\ t' = [t EXCEPT !.dirs = D]
    /\ sorter' = IdleSorter
    /\ tt' = IdleTT
    /\ sortCh' = IdleCh
    /\ UNCHANGED << files, x >>
    /\ UNCHANGED dupsVars
    /\ UNCHANGED << scanVars, apiVars >>

\* ------------------------------------------------------------------------
\* Dups (index/tree.go 510-591)
\* ------------------------------------------------------------------------

Workers == 1..NumCPU

IdleDu == [root |-> EmptyPath, maxDups |-> 0, maxLost |-> 0,
           q |-> << >>, qnil |-> TRUE, dups |-> << >>]
IdleWorker == [w \in Workers |-> [pc |-> "idle", d |-> EmptyPath, val |-> << >>]]

\* lines 510-544: nothing to do, or the queue, the WaitGroup, the workers and
\* the closing goroutine are set up
DupsStart(dirName, maxDups, maxLost) ==
    /\ pc = "tree"
    /\ IF dirName \notin DOMAIN t.dirs \/ t.dirs[dirName].dirs = << >> THEN
           /\ pc' = "done"
           /\ ret' = << >>
           /\ du' = [IdleDu EXCEPT !.root = dirName, !.maxDups = maxDups, !.maxLost = maxLost]
           /\ UNCHANGED << wg, worker, closer >>
       ELSE
           /\ pc' = "send"
           /\ du' = [root |-> dirName, maxDups |-> maxDups, maxLost |-> maxLost,
                     q |-> StackPush(<< >>, t.dirs[dirName].dirs), qnil |-> FALSE,
                     dups |-> << >>]
           /\ wg' = Len(t.dirs[dirName].dirs)
           /\ worker' = [w \in Workers |-> [IdleWorker[w] EXCEPT !.pc = "recv"]]
           /\ closer' = "wait"
           /\ ret' = ret
    /\ UNCHANGED << files, x, t, nextCh, dupCh, todoCh >>
    /\ UNCHANGED toTreeVars
    /\ UNCHANGED << scanVars, apiVars >>

\* lines 552-559: one round of the send loop, a send that does not block or
\* the break
CtlSend ==
    /\ pc = "send"
    /\ IF du.q # << >> /\ Len(nextCh.buf) < NumCPU THEN
           /\ nextCh' = [nextCh EXCEPT !.buf = Append(@, du.q[Len(du.q)])]
           /\ du' = [du EXCEPT !.q = SubSeq(@, 1, Len(@) - 1)]
           /\ pc' = pc
       ELSE
           /\ pc' = "select"
           /\ UNCHANGED << du, nextCh >>
    /\ UNCHANGED << files, x, t, dupCh, todoCh, wg, worker, closer, ret >>
    /\ UNCHANGED toTreeVars
    /\ UNCHANGED << scanVars, apiVars >>

\* the Dup that fills maxDups empties the queue and next without taking
\* the cancelled directories off the WaitGroup
CtlDupKeepsCount ==
    /\ pc = "select"
    /\ dupCh.buf # << >>
    /\ LET dups == Append(du.dups, Head(dupCh.buf))
       IN  /\ dupCh' = [dupCh EXCEPT !.buf = Tail(@)]
           /\ IF Len(dups) = du.maxDups THEN
                  /\ du' = [du EXCEPT !.dups = dups, !.q = << >>, !.qnil = TRUE]
                  /\ nextCh' = [nextCh EXCEPT !.buf = << >>]
              ELSE
                  /\ du' = [du EXCEPT !.dups = dups]
                  /\ nextCh' = nextCh
           /\ wg' = wg - 1
    /\ pc' = "send"
    /\ UNCHANGED << files, x, t, todoCh, worker, closer, ret >>
    /\ UNCHANGED toTreeVars
    /\ UNCHANGED << scanVars, apiVars >>

\* lines 561-582 and 589: a Dup arrives; the one that fills maxDups cancels
\* the queue and everything buffered in next
CtlDup ==
    /\ pc = "select"
    /\ dupCh.buf # << >>
    /\ LET dups == Append(du.dups, Head(dupCh.buf))
           n == Len(du.q) + Len(nextCh.buf)
       IN  /\ dupCh' = [dupCh EXCEPT !.buf = Tail(@)]
           /\ IF Len(dups) = du.maxDups THEN
                  /\ du' = [du EXCEPT !.dups = dups, !.q = << >>, !.qnil = TRUE]
                  /\ nextCh' = [nextCh EXCEPT !.buf = << >>]
                  /\ wg' = wg - n - 1
              ELSE
                  /\ du' = [du EXCEPT !.dups = dups]
                  /\ nextCh' = nextCh
                  /\ wg' = wg - 1
    /\ pc' = "send"
    /\ UNCHANGED << files, x, t, todoCh, worker, closer, ret >>
    /\ UNCHANGED toTreeVars
    /\ UNCHANGED << scanVars, apiVars >>

\* the sub-directories of a directory that is no duplicate are dropped
CtlTodoNoPush ==
    /\ pc = "select"
    /\ todoCh # << >>
    /\ du' = du
    /\ wg' = wg - 1
    /\ todoCh' = Tail(todoCh)
    /\ pc' = "send"
    /\ UNCHANGED << files, x, t, nextCh, dupCh, worker, closer, ret >>
    /\ UNCHANGED toTreeVars
    /\ UNCHANGED << scanVars, apiVars >>

\* lines 583-589: the sub-directories of a directory that is no duplicate
CtlTodo ==
    /\ pc = "select"
    /\ todoCh # << >>
    /\ LET d == Head(todoCh)
       IN  IF d # << >> /\ ~du.qnil THEN
               /\ du' = [du EXCEPT !.q = StackPush(@, d)]
               /\ wg' = wg + Len(d) - 1
           ELSE
               /\ du' = du
               /\ wg' = wg - 1
    /\ todoCh' = Tail(todoCh)
    /\ pc' = "send"
    /\ UNCHANGED << files, x, t, nextCh, dupCh, worker, closer, ret >>
    /\ UNCHANGED toTreeVars
    /\ UNCHANGED << scanVars, apiVars >>

\* the return of Dups without the sort
CtlReturnUnsorted ==
    /\ pc = "select"
    /\ dupCh.buf = << >> /\ dupCh.closed
    /\ LET n == IF du.maxDups <= 0 \/ Len(du.dups) < du.maxDups
                THEN Len(du.dups) ELSE du.maxDups
       IN  pc' = "done" /\ ret' = SubSeq(du.dups, 1, n)
    /\ UNCHANGED << files, x, t, du, nextCh, dupCh, todoCh, wg, worker, closer >>
    /\ UNCHANGED toTreeVars
    /\ UNCHANGED << scanVars, apiVars >>

\* lines 562-569: dup is closed; the Dups sorted by path, cut to maxDups
CtlReturn ==
    /\ pc = "select"
    /\ dupCh.buf = << >> /\ dupCh.closed
    /\ LET Cmp(a, b) == pathCmp(a.dir, b.dir)
           sorted == InsertionSort(Cmp, du.dups)
           n == IF du.maxDups <= 0 \/ Len(du.dups) < du.maxDups
                THEN Len(du.dups) ELSE du.maxDups
       IN  IF sorted.panic THEN pc' = "panic" /\ ret' = ret
           ELSE pc' = "done" /\ ret' = SubSeq(sorted.s, 1, n)
    /\ UNCHANGED << files, x, t, du, nextCh, dupCh, todoCh, wg, worker, closer >>
    /\ UNCHANGED toTreeVars
    /\ UNCHANGED << scanVars, apiVars >>

\* lines 529-530: dd.isDup(t, d, maxLost) and, when it holds, dd.dedup():
\* [ok, panic, dup]
WorkTest(d, maxLost) ==
    LET r == isDup(t, files, d, maxLost)
        u == dedup(t, files, d, r)
    IN  IF ~r.ok THEN [ok |-> FALSE, panic |-> FALSE, dup |-> << >>]
        ELSE [ok |-> TRUE, panic |-> u.panic, dup |-> [u EXCEPT !.panic = FALSE]]

NoTest == [ok |-> FALSE, panic |-> FALSE, dup |-> << >>]

\* lines 529-533: a worker takes a directory from next, for which isDup and
\* dedup answer v, or leaves (wg.Done) when next is closed
WorkRecvOf(w, v) ==
    /\ worker[w].pc = "recv"
    /\ pc # "panic"
    /\ IF nextCh.buf # << >> THEN
           \E d \in { Head(nextCh.buf) } :
               /\ nextCh' = [nextCh EXCEPT !.buf = Tail(@)]
               /\ IF ~v.ok THEN
                      /\ worker' = [worker EXCEPT ![w] =
                                      [pc |-> "todo", d |-> d, val |-> t.dirs[d].dirs]]
                      /\ pc' = pc
                  ELSE IF v.panic THEN
                      /\ pc' = "panic"
                      /\ worker' = worker
                  ELSE
                      /\ worker' = [worker EXCEPT ![w] =
                                      [pc |-> "dup", d |-> d, val |-> v.dup]]
                      /\ pc' = pc
               /\ wg' = wg
       ELSE
           /\ nextCh.closed
           /\ worker' = [worker EXCEPT ![w].pc = "exit"]
           /\ wg' = wg - 1
           /\ UNCHANGED << nextCh, pc >>
    /\ UNCHANGED << files, x, t, du, dupCh, todoCh, closer, ret >>
    /\ UNCHANGED toTreeVars
    /\ UNCHANGED << scanVars, apiVars >>

\* lines 529-531: a worker takes a directory from next and tests it, or
\* leaves (wg.Done) when next is closed
WorkRecv(w) ==
    /\ worker[w].pc = "recv"
    /\ \E v \in { IF nextCh.buf # << >>
                   THEN WorkTest(Head(nextCh.buf), du.maxLost) ELSE NoTest } :
         WorkRecvOf(w, v)

\* lines 531 and 533: the blocking send of the result on dup or todo
WorkSend(w) ==
    /\ \/ /\ worker[w].pc = "dup"
          /\ dupCh.buf = << >>
          /\ dupCh' = [dupCh EXCEPT !.buf = << worker[w].val >>]
          /\ todoCh' = todoCh
       \/ /\ worker[w].pc = "todo"
          /\ todoCh = << >>
          /\ todoCh' = << worker[w].val >>
          /\ dupCh' = dupCh
    /\ worker' = [worker EXCEPT ![w] = [pc |-> "recv", d |-> EmptyPath, val |-> << >>]]
    /\ UNCHANGED << files, x, t, pc, du, nextCh, wg, closer, ret >>
    /\ UNCHANGED toTreeVars
    /\ UNCHANGED << scanVars, apiVars >>

\* lines 538-544: all directories are processed, so next is closed; all
\* workers have returned, so dup is closed
Closer ==
    /\ wg = 0
    /\ \/ /\ closer = "wait"
          /\ wg' = NumCPU
          /\ nextCh' = [nextCh EXCEPT !.closed = TRUE]
          /\ closer' = "workers"
          /\ dupCh' = dupCh
       \/ /\ closer = "workers"
          /\ dupCh' = [dupCh EXCEPT !.closed = TRUE]
          /\ closer' = "done"
          /\ UNCHANGED << wg, nextCh >>
    /\ UNCHANGED << files, x, t, pc, du, todoCh, worker, ret >>
    /\ UNCHANGED toTreeVars
    /\ UNCHANGED << scanVars, apiVars >>

\* ------------------------------------------------------------------------
\* Scan and Rescan (unnamed/part_021)
\* ------------------------------------------------------------------------

Hashers == 1..NumCPU

IdleWalker == [pc |-> "idle", i |-> 0, val |-> 0]
IdleHashers == [h \in Hashers |-> [pc |-> "idle", i |-> 0, val |-> 0]]
\* no sequential call was made yet
IdleCall == [op |-> "none", arg |-> << >>, err |-> "", out |-> << >>]

IdleRescan == [all |-> << >>, errs |-> << >>, index |-> [root |-> << >>, groups |-> << >>],
               err |-> "", old |-> << >>, hashed |-> {}]

treeOnly == << x, t, tt, sortCh, sorter >>

\* cp.canceled()
isCanceled == canceled # "no"

\* the heap id of the File a hasher makes of entry i
NewId(i) == Len(rs.old) + i

\* lines 31-64: the non-persistent flags of the Tree's files are cleared, the
\* walker starts and with it the hashers
RescanStart ==
    /\ pc = "Rescan"
    /\ files' = [id \in DOMAIN files |->
                   IF opt.tree /\ id \in IdxIds(t)
                   THEN [files[id] EXCEPT !.flag = PersistOf(@)] ELSE files[id]]
    /\ rs' = [rs EXCEPT !.old = files]
    /\ wk' = [pc |-> "walk", i |-> 1, val |-> 0]
    /\ hs' = [h \in Hashers |->
                [pc |-> IF h <= opt.nh THEN "recv" ELSE "exit", i |-> 0, val |-> 0]]
    /\ pc' = "recv"
    /\ UNCHANGED << src, opt, hashCh, fileCh, werrCh, canceled >>
    /\ UNCHANGED << treeOnly, apiVars >>
    /\ UNCHANGED dupsVars

\* ctx is canceled, from outside, while the call is running
Cancel ==
    /\ pc = "recv"
    /\ canceled = "no"
    /\ canceled' = IF wk.pc # "done" THEN "running" ELSE "drained"
    /\ UNCHANGED << files, pc, src, opt, wk, hs, hashCh, fileCh, werrCh, rs >>
    /\ UNCHANGED << treeOnly, apiVars >>
    /\ UNCHANGED dupsVars

\* w.err(e): with an error callback the error is to be sent on werr
ErrOr(state, e, next) ==
    IF opt.errFn THEN [pc |-> state, i |-> next, val |-> e]
    ELSE [pc |-> "walk", i |-> next, val |-> 0]

\* lines 133-158: the callback of fs.WalkDir for the next entry
WalkEntry ==
    /\ wk.pc = "walk"
    /\ wk.i <= Len(src)
    /\ LET i == wk.i
           e == src[i]
           f == IF opt.tree THEN treeFile(t, files, WalkName(e)) ELSE 0
       IN  IF isCanceled THEN
               /\ wk' = [wk EXCEPT !.i = Len(src) + 1]
               /\ files' = files
           ELSE IF invalidName(WalkName(e)) THEN
               /\ wk' = ErrOr("sendErr", << "path", i >>, SkipDirNext(src, i))
               /\ files' = files
           ELSE IF e.kind = "file" THEN
               IF f # 0 /\ isSame(files[f], e) THEN
                   /\ files' = [files EXCEPT ![f].flag = reuseFlag(@)]
                   /\ wk' = [pc |-> "sendFile", i |-> i + 1, val |-> f]
               ELSE
                   /\ wk' = [pc |-> "sendHash", i |-> i + 1, val |-> i]
                   /\ files' = files
           ELSE IF e.kind # "dir" THEN
               /\ wk' = ErrOr("sendErr", << "type", i >>, i + 1)
               /\ files' = files
           ELSE
               /\ wk' = [wk EXCEPT !.i = i + 1]
               /\ files' = files
    /\ UNCHANGED << pc, src, opt, hs, hashCh, fileCh, werrCh, canceled, rs >>
    /\ UNCHANGED << treeOnly, apiVars >>
    /\ UNCHANGED dupsVars

\* lines 149, 153 and 178: the walker's blocking send on file, hash or werr
WalkSend ==
    /\ \/ /\ wk.pc = "sendFile"
          /\ fileCh.buf = << >>
          /\ fileCh' = [fileCh EXCEPT !.buf = << wk.val >>]
          /\ UNCHANGED << hashCh, werrCh >>
       \/ /\ wk.pc = "sendHash"
          /\ hashCh.buf = << >>
          /\ hashCh' = [hashCh EXCEPT !.buf = << wk.val >>]
          /\ UNCHANGED << fileCh, werrCh >>
       \/ /\ wk.pc = "sendErr"
          /\ werrCh = << >>
          /\ werrCh' = << wk.val >>
          /\ UNCHANGED << fileCh, hashCh >>
    /\ wk' = [wk EXCEPT !.pc = "walk", !.val = 0]
    /\ UNCHANGED << files, pc, src, opt, hs, canceled, rs >>
    /\ UNCHANGED << treeOnly, apiVars >>
    /\ UNCHANGED dupsVars

\* lines 124-128: the walk is over; hash is closed, and when every hasher
\* has returned, file is closed
WalkClose ==
    /\ \/ /\ wk.pc = "walk"
          /\ wk.i > Len(src)
          /\ hashCh' = [hashCh EXCEPT !.closed = TRUE]
          /\ wk' = [wk EXCEPT !.pc = "wait"]
          /\ fileCh' = fileCh
       \/ /\ wk.pc = "wait"
          /\ \A h \in Hashers : hs[h].pc = "exit"
          /\ fileCh' = [fileCh EXCEPT !.closed = TRUE]
          /\ wk' = [wk EXCEPT !.pc = "done"]
          /\ hashCh' = hashCh
    /\ UNCHANGED << files, pc, src, opt, hs, werrCh, canceled, rs >>
    /\ UNCHANGED << treeOnly, apiVars >>
    /\ UNCHANGED dupsVars

\* line 167 with a hasher that returns as soon as the call is canceled,
\* leaving the names in the channel
HashRecvQuits(h) ==
    /\ hs[h].pc = "recv"
    /\ IF isCanceled THEN
           /\ hs' = [hs EXCEPT ![h].pc = "exit"]
           /\ hashCh' = hashCh
       ELSE IF hashCh.buf # << >> THEN
           /\ hs' = [hs EXCEPT ![h] = [pc |-> "read", i |-> Head(hashCh.buf), val |-> 0]]
           /\ hashCh' = [hashCh EXCEPT !.buf = Tail(@)]
       ELSE
           /\ hashCh.closed
           /\ hs' = [hs EXCEPT ![h].pc = "exit"]
           /\ hashCh' = hashCh
    /\ UNCHANGED << files, pc, src, opt, wk, fileCh, werrCh, canceled, rs >>
    /\ UNCHANGED << treeOnly, apiVars >>
    /\ UNCHANGED dupsVars

\* line 167: a hasher takes the next name, or returns when hash is closed
HashRecv(h) ==
    /\ hs[h].pc = "recv"
    /\ IF hashCh.buf # << >> THEN
           /\ hs' = [hs EXCEPT ![h] = [pc |-> "read", i |-> Head(hashCh.buf), val |-> 0]]
           /\ hashCh' = [hashCh EXCEPT !.buf = Tail(@)]
       ELSE
           /\ hashCh.closed
           /\ hs' = [hs EXCEPT ![h].pc = "exit"]
           /\ hashCh' = hashCh
    /\ UNCHANGED << files, pc, src, opt, wk, fileCh, werrCh, canceled, rs >>
    /\ UNCHANGED << treeOnly, apiVars >>
    /\ UNCHANGED dupsVars

\* lines 168-172: Hasher.Read.  A file that cannot be opened is an error for
\* the error callback.  The monitor polls the cancellation while the file is
\* read: the error it stops Read with is context.Canceled, which is dropped,
\* or wraps it like Read's other errors, and then goes to the error callback.
\* Otherwise Read returns the File.
HashRead(h) ==
    /\ hs[h].pc = "read"
    /\ LET i == hs[h].i
           back == [pc |-> "recv", i |-> 0, val |-> 0]
       IN  IF ~src[i].ok THEN
               /\ hs' = [hs EXCEPT ![h] =
                           IF opt.errFn THEN [pc |-> "sendErr", i |-> i, val |-> << "read", i >>]
                           ELSE back]
               /\ UNCHANGED << files, rs >>
           ELSE IF isCanceled THEN
               /\ \/ hs' = [hs EXCEPT ![h] = back]
                  \/ /\ opt.errFn
                     /\ hs' = [hs EXCEPT ![h] =
                                 [pc |-> "sendErr", i |-> i, val |-> << "canceled", i >>]]
               /\ UNCHANGED << files, rs >>
           ELSE
               /\ files' = Put(files, NewId(i), HasherRead(src[i]))
               /\ hs' = [hs EXCEPT ![h] = [pc |-> "sendFile", i |-> i, val |-> NewId(i)]]
               /\ rs' = [rs EXCEPT !.hashed = @ \cup {i}]
    /\ UNCHANGED << pc, src, opt, wk, hashCh, fileCh, werrCh, canceled >>
    /\ UNCHANGED << treeOnly, apiVars >>
    /\ UNCHANGED dupsVars

\* lines 169 and 171: the hasher's blocking send on file or werr
HashSend(h) ==
    /\ \/ /\ hs[h].pc = "sendFile"
          /\ fileCh.buf = << >>
          /\ fileCh' = [fileCh EXCEPT !.buf = << hs[h].val >>]
          /\ werrCh' = werrCh
       \/ /\ hs[h].pc = "sendErr"
          /\ werrCh = << >>
          /\ werrCh' = << hs[h].val >>
          /\ fileCh' = fileCh
    /\ hs' = [hs EXCEPT ![h] = [pc |-> "recv", i |-> 0, val |-> 0]]
    /\ UNCHANGED << files, pc, src, opt, wk, hashCh, canceled, rs >>
    /\ UNCHANGED << treeOnly, apiVars >>
    /\ UNCHANGED dupsVars

\* lines 71-79: the collector receives a File or an error
Collect ==
    /\ pc = "recv"
    /\ \/ /\ fileCh.buf # << >>
          /\ rs' = [rs EXCEPT !.all = Append(@, Head(fileCh.buf))]
          /\ fileCh' = [fileCh EXCEPT !.buf = << >>]
          /\ werrCh' = werrCh
       \/ /\ werrCh # << >>
          /\ rs' = [rs EXCEPT !.errs = Append(@, Head(werrCh))]
          /\ werrCh' = << >>
          /\ fileCh' = fileCh
    /\ UNCHANGED << files, pc, src, opt, wk, hs, hashCh, canceled >>
    /\ UNCHANGED << treeOnly, apiVars >>
    /\ UNCHANGED dupsVars

\* lines 72-73 and 90-111: file is closed; a canceled call returns the empty
\* Index and ctx.Err(), any other the Index of what it collected
RescanReturn ==
    /\ pc = "recv"
    /\ fileCh.buf = << >> /\ fileCh.closed
    /\ IF isCanceled THEN
           /\ rs' = [rs EXCEPT !.err = "canceled"]
           /\ pc' = "returned"
           /\ files' = files
       ELSE
           \E r \in { RescanFinish(files, t, rs.all) } :
              IF r.panic THEN
                  /\ pc' = "panic"
                  /\ UNCHANGED << files, rs >>
              ELSE
                  /\ files' = r.files
                  /\ rs' = [rs EXCEPT !.index = r.index]
                  /\ pc' = "returned"
    /\ UNCHANGED << src, opt, wk, hs, hashCh, fileCh, werrCh, canceled >>
    /\ UNCHANGED << treeOnly, apiVars >>
    /\ UNCHANGED dupsVars

\* ------------------------------------------------------------------------
\* Specification of Scan and Rescan
\* ------------------------------------------------------------------------

\* the number of records of the old Index
MaxOld == 2

Entry(p, k, c, ok) ==
    [path |-> p, kind |-> k, size |-> c, modTime |-> 1, content |-> c, ok |-> ok]

SrcPlain ==        \* .  A/  A/a  b  y
    << Entry(Root, "dir", 0, TRUE), Entry(<< "A", "/" >>, "dir", 0, TRUE),
       Entry(<< "A", "/", "a" >>, "file", 1, TRUE), Entry(<< "b" >>, "file", 2, TRUE),
       Entry(<< "y" >>, "file", 1, TRUE) >>

SrcNewline ==      \* .  A/  A/\n  A/a  y
    << Entry(Root, "dir", 0, TRUE), Entry(<< "A", "/" >>, "dir", 0, TRUE),
       Entry(<< "A", "/", "\n" >>, "file", 1, TRUE),
       Entry(<< "A", "/", "a" >>, "file", 1, TRUE), Entry(<< "y" >>, "file", 2, TRUE) >>

SrcOdd ==          \* .  m (a symbolic link)  u (unreadable)  y
    << Entry(Root, "dir", 0, TRUE), Entry(<< "m" >>, "other", 0, TRUE),
       Entry(<< "u" >>, "file", 1, FALSE), Entry(<< "y" >>, "file", 2, TRUE) >>

Sources == { SrcPlain, SrcNewline, SrcOdd }

\* the path of a file that is in no source
GhostPath == << "z" >>

\* The records an old Index can hold for source S: of a file of S as it is
\* or as it was before a change, of a file that is no longer there, unmarked
\* or marked; and marked records that are already gone.
OldPool(S) ==
    LET fs == { i \in 1..Len(S) : S[i].kind = "file" /\ ~invalidName(S[i].path) }
        same == { [path |-> S[i].path, digest |-> S[i].content, size |-> S[i].size,
                   modTime |-> 1, flag |-> fl] : i \in fs, fl \in { flagNone, flagDup } }
        changed == { [path |-> S[i].path, digest |-> 3, size |-> 3,
                      modTime |-> 2, flag |-> fl] : i \in fs, fl \in { flagNone, flagKeep } }
        ghost == { [path |-> GhostPath, digest |-> 3, size |-> 3,
                    modTime |-> 1, flag |-> fl] : fl \in { flagNone, flagDup } }
        gone == { [path |-> p, digest |-> 3, size |-> 3, modTime |-> 2,
                   flag |-> flagJunk + flagGone] : p \in { S[i].path : i \in fs } \cup { GhostPath } }
    IN  same \cup changed \cup ghost \cup gone

\* the heaps of the old Indexes for S: at most MaxOld records, no two for the
\* same path unless one is gone, in Files.Sort order
OldHeaps(S) ==
    LET ok(R) == /\ Cardinality(R) <= MaxOld
                 /\ \A a, b \in R : a # b => (a.path # b.path \/ IsGone(a.flag) # IsGone(b.flag))
        heap(R) == LET F0 == SetToSeq(R)
                       o == FilesSort(F0, [i \in 1..Len(F0) |-> i]).s
                   IN  [i \in 1..Len(F0) |-> F0[o[i]]]
    IN  { heap(R) : R \in { Q \in SUBSET OldPool(S) : ok(Q) } }

ScanStart(S, F, tree, errFn, nh) ==
    LET ix == New(<< >>, F, [i \in 1..Len(F) |-> i])
        X == [root |-> ix.root, groups |-> ix.groups]
    IN  /\ src = S
        /\ files = F
        /\ x = X
        /\ t = IF tree THEN ToTreeSorted(X, F)
               ELSE [root |-> << >>, dirs |-> EmptyMap, idx |-> EmptyMap]
        /\ opt = [tree |-> tree, errFn |-> errFn, nh |-> nh]
        /\ pc = "Rescan"
        /\ tt = IdleTT
        /\ sortCh = IdleCh
        /\ sorter = IdleSorter
        /\ du = IdleDu
        /\ nextCh = IdleCh
        /\ dupCh = IdleCh
        /\ todoCh = << >>
        /\ wg = 0
        /\ worker = IdleWorker
        /\ closer = "idle"
        /\ ret = << >>
        /\ wk = IdleWalker
        /\ hs = IdleHashers
        /\ hashCh = IdleCh
        /\ fileCh = IdleCh
        /\ werrCh = << >>
        /\ canceled = "no"
        /\ rs = IdleRescan
        /\ buf = << >>
        /\ call = IdleCall

\* Scan of a source on a machine with 1..NumCPU CPUs, with or without an
\* error callback; or Rescan of a source with the Tree of an old Index
InitScan ==
    \E S \in Sources :
       \/ \E errFn \in BOOLEAN, nh \in 1..NumCPU : ScanStart(S, << >>, FALSE, errFn, nh)
       \/ \E F \in OldHeaps(S) : ScanStart(S, F, TRUE, TRUE, NumCPU)

NextScan ==
    \/ RescanStart
    \/ Cancel
    \/ WalkEntry
    \/ WalkSend
    \/ WalkClose
    \/ \E h \in Hashers : HashRecv(h)
    \/ \E h \in Hashers : HashRead(h)
    \/ \E h \in Hashers : HashSend(h)
    \/ Collect
    \/ RescanReturn

SpecScan == InitScan /\ [][NextScan]_vars

\* The calls whose cancellation is followed to the end: every Scan, and the
\* Rescans of a Tree whose records are all marked Dup
InitScanFair ==
    \E S \in Sources :
       \/ \E errFn \in BOOLEAN, nh \in 1..NumCPU : ScanStart(S, << >>, FALSE, errFn, nh)
       \/ \E F \in { G \in OldHeaps(S) : \A i \in DOMAIN G : G[i].flag = flagDup } :
             ScanStart(S, F, TRUE, TRUE, NumCPU)

\* The goroutines of a call are scheduled fairly: the walker, every hasher
\* and the collector take their next step when they can; of the collector's
\* return only that of a canceled call is required.  Nothing makes the
\* cancellation happen.
FairScan ==
    /\ WF_vars(RescanStart \/ Collect \/ (isCanceled /\ RescanReturn))
    /\ WF_vars(WalkEntry \/ WalkSend \/ WalkClose)
    /\ \A h \in Hashers : WF_vars(HashRecv(h) \/ HashRead(h) \/ HashSend(h))

SpecScanFair == InitScanFair /\ [][NextScan]_vars /\ FairScan

\* ------------------------------------------------------------------------
\* Specification of ToTree followed by Dups
\* ------------------------------------------------------------------------

\* The Index of a layout: New() of its files, which are in Files.Sort order
InitTree ==
    \E L \in TreeLayouts :
      \E dg \in DigestChoices(Len(L.paths)) : \E fl \in FlagChoices(Len(L.paths), L.marked) :
        LET F == [i \in 1..Len(L.paths) |->
                    [path |-> L.paths[i], digest |-> dg[i], size |-> 1, modTime |-> 1,
                     flag |-> fl[i]]]
            ix == New(<< >>, F, [i \in 1..Len(L.paths) |-> i])
        IN  /\ files = F
            /\ x = [root |-> ix.root, groups |-> ix.groups]
            /\ t = [root |-> << >>, dirs |-> EmptyMap, idx |-> EmptyMap]
            /\ pc = "ToTree"
            /\ tt = IdleTT
            /\ sortCh = IdleCh
            /\ sorter = IdleSorter
            /\ du = IdleDu
            /\ nextCh = IdleCh
            /\ dupCh = IdleCh
            /\ todoCh = << >>
            /\ wg = 0
            /\ worker = IdleWorker
            /\ closer = "idle"
            /\ ret = << >>
            /\ src = << >>
            /\ opt = [tree |-> FALSE, errFn |-> FALSE, nh |-> NumCPU]
            /\ wk = IdleWalker
            /\ hs = IdleHashers
            /\ hashCh = IdleCh
            /\ fileCh = IdleCh
            /\ werrCh = << >>
            /\ canceled = "no"
            /\ rs = IdleRescan
            /\ buf = << >>
            /\ call = IdleCall
        /\ buf = << >>
        /\ call = IdleCall

\* t.ToIndex() on the Tree that ToTree returned
ToIndexCall ==
    /\ pc = "tree"
    /\ \E r \in { ToIndex(t, files) } :
         /\ pc' = IF r.panic THEN "panic" ELSE "indexed"
         /\ call' = [op |-> "ToIndex", arg |-> << >>, err |-> "",
                     out |-> [root |-> r.root, groups |-> r.groups]]
    /\ UNCHANGED << files, x, t, buf, taskVars >>

\* the arguments of a call of Dups
MaxDups == 1
MaxLost == 1

DupsRoots == { Root, << "A", "/" >>, << "X", "/" >>, << "X", "/", ".", "g", "i", "t", "/" >> }

NextTree ==
    \/ ToTreeStart
    \/ \E d \in DOMAIN t.dirs : RangeSend(d)
    \/ StampNext
    \/ PushRead
    \/ CloseSort
    \/ \E w \in SortWorkers : SortRecv(w)
    \/ \E w \in SortWorkers : SortDirs(w)
    \/ \E w \in SortWorkers : SortSwap(w)
    \/ ToTreeReturn
    \/ ToIndexCall
    \/ \E d \in DupsRoots, m \in 0..MaxDups, l \in 0..MaxLost : DupsStart(d, m, l)
    \/ CtlSend
    \/ CtlDup
    \/ CtlTodo
    \/ CtlReturn
    \/ \E w \in Workers : WorkRecv(w)
    \/ \E w \in Workers : WorkSend(w)
    \/ Closer

SpecTree == InitTree /\ [][NextTree]_vars

\* ------------------------------------------------------------------------
\* Properties of ToTree and Dups
\* ------------------------------------------------------------------------

\* ToTree has returned a Tree (Dups may be running on it or have returned)
TreeBuilt == pc \in { "tree", "send", "select", "done" }

\* the atomic directories that are d or contain d
AtomicAncestors(d) ==
    { a \in DOMAIN t.dirs : a # Root /\ contains(a, d) /\ isAtomic(base(a)) }

\* the outermost atomic ancestor-or-self of d, or NoAtom
OutermostAtom(d) ==
    IF AtomicAncestors(d) = {} THEN NoAtom
    ELSE CHOOSE a \in AtomicAncestors(d) : \A b \in AtomicAncestors(d) : Len(a) <= Len(b)

\* C5: after ToTree every directory named .git or .svn, or below one, has the
\* outermost such ancestor-or-self as its atom, and every other directory has
\* no atom, whatever the order of the map iteration and the interleaving with
\* the sort workers.
C5_AtomIsOutermost ==
    TreeBuilt => \A d \in DOMAIN t.dirs : t.dirs[d].atom = OutermostAtom(d)

\* the files of the heap that exist under directory d
FilesUnder(d) ==
    { id \in DOMAIN files : ~IsGone(files[id].flag) /\ contains(d, files[id].path) }

\* file id has a safe copy outside directory d
HasSafeCopyOutside(id, d) ==
    \E o \in DOMAIN files :
       /\ files[o].digest = files[id].digest
       /\ IsSafe(files[o].flag)
       /\ ~contains(d, files[o].path)

\* the digests of the files under d that are not ignorable and have, or do
\* not have, a safe copy outside d
SafeDigests(d) ==
    { files[id].digest : id \in { i \in FilesUnder(d) :
                                    ~canIgnore(files[i]) /\ HasSafeCopyOutside(i, d) } }
LostDigests(d) ==
    { files[id].digest : id \in { i \in FilesUnder(d) :
                                    ~canIgnore(files[i]) /\ ~HasSafeCopyOutside(i, d) } }

Returned == { ret[i] : i \in 1..Len(ret) }

\* C1: no directory returned by Dups contains, at any depth, a file that is
\* marked Keep and is not gone.
C1_NoKeepUnderDup ==
    pc = "done" =>
      \A u \in Returned :
         \A id \in FilesUnder(u.dir) : MarkOf(files[id].flag) # flagKeep

\* a call returned a duplicate directory although a sibling directory with
\* the same content holds a Keep file
C1_Witness ==
    /\ pc = "done"
    /\ Returned # {}
    /\ \E id \in DOMAIN files :
          /\ PersistOf(files[id].flag) = flagKeep
          /\ dir(files[id].path) # Root
          /\ SafeDigests(dir(files[id].path)) # {}
          /\ LostDigests(dir(files[id].path)) = {}

\* C2: every Dup returned by Dups(root, maxDups, maxLost), maxLost >= 0, has
\* at most maxLost lost digests and more safe digests than the square of the
\* number of lost ones; its lost files and safe map are those digests.
C2_SafetyMargin ==
    pc = "done" =>
      \A u \in Returned :
         LET safe == SafeDigests(u.dir)
             lost == LostDigests(u.dir)
         IN  /\ Cardinality(lost) <= du.maxLost
             /\ Cardinality(safe) > Cardinality(lost) * Cardinality(lost)
             /\ safe # {}
             /\ DOMAIN u.safe = safe
             /\ { files[id].digest : id \in Seq2Set(u.lost) } = lost

\* a directory is returned that loses one digest and saves two
C2_Witness ==
    /\ pc = "done"
    /\ \E u \in Returned :
          /\ Cardinality(LostDigests(u.dir)) = 1
          /\ Cardinality(SafeDigests(u.dir)) >= 2

\* C3: every safe digest of a returned Dup is mapped to one of the Dup's
\* alternates, and the subtree of that alternate contains a safe file with
\* that digest.
C3_AltHoldsSafeCopy ==
    pc = "done" =>
      \A u \in Returned :
         /\ DOMAIN u.safe = SafeDigests(u.dir)
         /\ \A g \in DOMAIN u.safe :
               /\ u.safe[g] \in Seq2Set(u.alts)
               /\ \E id \in DOMAIN files :
                     /\ files[id].digest = g
                     /\ IsSafe(files[id].flag)
                     /\ contains(u.safe[g], files[id].path)

\* a returned Dup whose safe digests are spread over two alternates
C3_Witness ==
    /\ pc = "done"
    /\ \E u \in Returned :
          /\ Len(u.alts) >= 2
          /\ \E g, h \in DOMAIN u.safe : u.safe[g] # u.safe[h]

\* C4: Dups never returns a directory that lies strictly inside a directory
\* named .git or .svn.
C4_NoDupInsideAtom ==
    pc = "done" =>
      \A u \in Returned : AtomicAncestors(u.dir) \subseteq { u.dir }

\* ------------------------------------------------------------------------
\* Properties of Scan and Rescan
\* ------------------------------------------------------------------------

\* the call has returned an Index (it was not canceled)
ScanDone == pc = "returned" /\ rs.err = ""

\* fs.WalkDir reaches entry i of the source when nothing is canceled: no
\* entry before it with an unsupported name is a directory that contains it
\* or a file of a directory that contains it
Reached(i) ==
    \A j \in 1..(i - 1) :
       invalidName(WalkName(src[j])) =>
          ~contains(IF src[j].kind = "dir" THEN src[j].path ELSE dir(src[j].path), src[i].path)

\* entry i is a regular file with the path, size and modification time of
\* the old Tree's non-gone record id
Unchanged(id, i) ==
    /\ src[i].kind = "file"
    /\ ~IsGone(rs.old[id].flag)
    /\ rs.old[id].path = src[i].path
    /\ rs.old[id].size = src[i].size
    /\ rs.old[id].modTime = src[i].modTime

\* the ids of the returned Index
IndexIds == UNION { Seq2Set(rs.index.groups[k]) : k \in DOMAIN rs.index.groups }

\* old record id is in the new Index with digest and mark as before and Same
Reused(id) ==
    /\ id \in IndexIds
    /\ files[id].digest = rs.old[id].digest
    /\ MarkOf(files[id].flag) = MarkOf(rs.old[id].flag)
    /\ ~IsGone(files[id].flag)
    /\ SameOf(files[id].flag) = flagSame

\* the groups of an Index as records, the Same bit ignored
IndexRecords(F, groups) ==
    [k \in DOMAIN groups |->
       [j \in DOMAIN groups[k] |-> [F[groups[k][j]] EXCEPT !.flag = @ - SameOf(@)]]]

\* the entries a Scan of the source records: the readable regular files it
\* reaches
Scanned ==
    { i \in 1..Len(src) :
        src[i].kind = "file" /\ src[i].ok /\ Reached(i) /\ ~invalidName(WalkName(src[i])) }

FoundUnchanged(id) ==
    \E i \in 1..Len(src) : Unchanged(id, i) /\ Reached(i)

\* C7: after a completed Rescan every record of the old Tree, gone ones
\* included, that was not found unchanged is Gone, keeps its mark, and is in
\* the new Index exactly if it is marked.
C7_GoneKeptIffMarked ==
    (ScanDone /\ opt.tree) =>
      \A id \in DOMAIN rs.old :
         ~FoundUnchanged(id) =>
            /\ IsGone(files[id].flag)
            /\ MarkOf(files[id].flag) = MarkOf(rs.old[id].flag)
            /\ [files[id] EXCEPT !.flag = 0] = [rs.old[id] EXCEPT !.flag = 0]
            /\ (id \in IndexIds) <=> (MarkOf(rs.old[id].flag) # 0)

\* a Rescan returned that forgot an unmarked vanished record and carried a
\* marked record that was gone before
C7_Witness ==
    /\ ScanDone
    /\ opt.tree
    /\ \E a, b \in DOMAIN rs.old :
          /\ ~FoundUnchanged(a) /\ ~FoundUnchanged(b)
          /\ rs.old[a].flag = flagNone /\ a \notin IndexIds
          /\ IsGone(rs.old[b].flag) /\ MarkOf(rs.old[b].flag) # 0 /\ b \in IndexIds

\* the source is as it was when the old Index was produced: the non-gone
\* records are those of the files a Scan records
SourceUnchanged ==
    LET live == { id \in DOMAIN rs.old : ~IsGone(rs.old[id].flag) }
        same(id, i) == [rs.old[id] EXCEPT !.flag = 0] = HasherRead(src[i])
    IN  /\ \A id \in live : \E i \in Scanned : same(id, i)
        /\ \A i \in Scanned : \E id \in live : same(id, i)

\* C8: a Rescan over an unchanged source returns the Index the old Tree's
\* ToIndex() returned, the Same bit ignored.
C8_RescanUnchangedIsToIndex ==
    (ScanDone /\ opt.tree /\ SourceUnchanged) =>
      LET o == ToIndex(t, rs.old)
      IN  /\ ~o.panic
          /\ rs.index.root = o.root
          /\ IndexRecords(files, rs.index.groups) = IndexRecords(rs.old, o.groups)

\* a Rescan over an unchanged source returned an Index with a marked file
\* and a marked gone record
C8_Witness ==
    /\ ScanDone
    /\ opt.tree
    /\ SourceUnchanged
    /\ \E a, b \in IndexIds :
          /\ rs.old[a].flag = flagDup
          /\ IsGone(rs.old[b].flag)

\* the Index of the source: the Files of the entries a Scan records, sorted
\* and grouped
ExpectedFiles == [id \in { NewId(i) : i \in Scanned } |-> HasherRead(src[id - Len(rs.old)])]

ExpectedGroups ==
    LET ids == SetToSeq(DOMAIN ExpectedFiles)
        byPath(a, b) == pathCmp(ExpectedFiles[a].path, ExpectedFiles[b].path) < 0
        sorted == SortSeq(ids, byPath)
        digests == FirstDigests(ExpectedFiles, sorted, {})
    IN  [k \in 1..Len(digests) |->
           LET hasDigest(id) == ExpectedFiles[id].digest = digests[k]
           IN  SelectSeq(sorted, hasDigest)]

\* C9: a Scan that returns an Index returns the Index of the source, the same
\* groups in the same order with the same files in the same order, whatever
\* the number of hashers and the interleaving.
C9_ScanDeterministic ==
    (ScanDone /\ ~opt.tree) =>
      /\ rs.index.groups = ExpectedGroups
      /\ \A id \in DOMAIN ExpectedFiles : files[id] = ExpectedFiles[id]

\* a Scan with two hashers returned after the files arrived in another order
\* than the order of the Index
C9_Witness ==
    /\ ScanDone
    /\ ~opt.tree
    /\ opt.nh = 2
    /\ Len(rs.index.groups) = 2
    /\ \E i, j \in 1..Len(rs.all) :
          i < j /\ pathCmp(files[rs.all[i]].path, files[rs.all[j]].path) > 0

\* the walker and the hashers have terminated and the call has returned the
\* cancellation error with the empty Index
CanceledReturn ==
    /\ pc = "returned"
    /\ wk.pc = "done"
    /\ \A h \in Hashers : hs[h].pc = "exit"
    /\ rs.err = "canceled"
    /\ rs.index = [root |-> << >>, groups |-> << >>]

\* C10: a call that is canceled while the walker or a hasher is running
\* returns in the end, walker and hashers terminated, with the cancellation
\* error and the empty Index; no canceled call returns a partial Index.
C10_CancelReturnsEmpty ==
    /\ (canceled = "running") ~> CanceledReturn
    /\ []((pc = "returned" /\ isCanceled) => CanceledReturn)

\* a call canceled while the walker was running returned the empty Index
\* although files had been collected
C10_Witness ==
    /\ canceled = "running"
    /\ CanceledReturn
    /\ rs.all # << >>

\* the per-file errors of a call that is not canceled: an unsupported name,
\* an entry that is neither a regular file nor a directory, a file that is
\* handed to a hasher and cannot be read
ExpectedErrs ==
    { << "path", i >> : i \in { j \in 1..Len(src) :
                                  Reached(j) /\ invalidName(WalkName(src[j])) } }
    \cup { << "type", i >> : i \in { j \in 1..Len(src) :
                                  /\ Reached(j) /\ ~invalidName(WalkName(src[j]))
                                  /\ src[j].kind = "other" } }
    \cup { << "read", i >> : i \in { j \in 1..Len(src) :
                                  /\ Reached(j) /\ ~invalidName(WalkName(src[j]))
                                  /\ src[j].kind = "file" /\ ~src[j].ok
                                  /\ \A id \in DOMAIN rs.old : ~Unchanged(id, j) } }

\* C11: with an error callback, when a call that was not canceled returns,
\* every per-file error of the walker and of the hashers has been passed to
\* the callback exactly once, and nothing else has.
C11_EveryErrorReported ==
    (ScanDone /\ opt.errFn) =>
      /\ Seq2Set(rs.errs) = ExpectedErrs
      /\ Len(rs.errs) = Cardinality(ExpectedErrs)

\* ------------------------------------------------------------------------
\* Specification of New, Index.write and read called one after the other
\* ------------------------------------------------------------------------

\* no goroutine of ToTree, Dups or Rescan exists (src is set by each Init)
IdleTasks ==
    /\ tt = IdleTT
    /\ sortCh = IdleCh
    /\ sorter = IdleSorter
    /\ du = IdleDu
    /\ nextCh = IdleCh
    /\ dupCh = IdleCh
    /\ todoCh = << >>
    /\ wg = 0
    /\ worker = IdleWorker
    /\ closer = "idle"
    /\ ret = << >>
    /\ opt = [tree |-> FALSE, errFn |-> FALSE, nh |-> NumCPU]
    /\ wk = IdleWalker
    /\ hs = IdleHashers
    /\ hashCh = IdleCh
    /\ fileCh = IdleCh
    /\ werrCh = << >>
    /\ canceled = "no"
    /\ rs = IdleRescan

MaxFiles == 3
MaxTime == 2
MaxTextDigest == 2

TextRoot == << "/", "s", "r", "c" >>

\* file paths in Files.Sort order; the last one ends in white space
TextPaths == << << "A", "/", "a" >>, << "c" >>, << "d", "\t" >>, << "e" >> >>

TextFlags ==
    { flagNone, flagDup, flagGone, flagJunk + flagGone, flagKeep + flagGone, flagSame }

\* a list of up to MaxFiles files; with odd, the last file is one byte
\* longer than its digest tells
InitText ==
    \E n \in 1..MaxFiles : \E odd \in BOOLEAN :
      \E dg \in [1..n -> 1..MaxTextDigest], tm \in [1..n -> 1..MaxTime],
         fl \in [1..n -> TextFlags] :
        /\ files = [i \in 1..n |->
                      [path |-> TextPaths[i], digest |-> dg[i],
                       size |-> IF odd /\ i = n THEN dg[i] + 1 ELSE dg[i],
                       modTime |-> tm[i], flag |-> fl[i]]]
        /\ x = [root |-> << >>, groups |-> << >>]
        /\ t = [root |-> << >>, dirs |-> EmptyMap, idx |-> EmptyMap]
        /\ pc = "New"
        /\ buf = << >>
        /\ call = IdleCall
        /\ src = << >>
        /\ IdleTasks

\* New(root, all) with the files of the heap in their order
NewIndex ==
    /\ pc = "New"
    /\ \E r \in { New(TextRoot, files, [i \in 1..Len(files) |-> i]) } :
         /\ pc' = IF r.panic THEN "panic" ELSE "index"
         /\ x' = [root |-> r.root, groups |-> r.groups]
         /\ call' = [op |-> "New", arg |-> << >>,
                     err |-> IF r.panic THEN "digest collision" ELSE "", out |-> << >>]
    /\ UNCHANGED << files, t, buf, taskVars >>

\* x.write(&buf)
IndexWrite ==
    /\ pc = "index"
    /\ \E w \in { write(x, files) } :
         /\ pc' = IF w.panic THEN "panic" ELSE "written"
         /\ buf' = IF w.panic THEN buf ELSE w.text
         /\ call' = [op |-> "write", arg |-> << >>,
                     err |-> IF w.panic THEN "group digest/size mismatch" ELSE "",
                     out |-> << >>]
    /\ UNCHANGED << files, x, t, taskVars >>

\* read(&buf)
IndexRead ==
    /\ pc = "written"
    /\ \E r \in { read(buf) } :
         /\ pc' = IF r.panic THEN "panic" ELSE "read"
         /\ call' = [op |-> "read", arg |-> << >>, err |-> r.err,
                     out |-> [root |-> r.root, groups |-> r.groups]]
    /\ UNCHANGED << files, x, t, buf, taskVars >>

NextText == NewIndex \/ IndexWrite \/ IndexRead

SpecText == InitText /\ [][NextText]_vars

\* ------------------------------------------------------------------------
\* Properties of New, write and read
\* ------------------------------------------------------------------------

\* what the text format keeps of a file
Persistent(f) == [f EXCEPT !.flag = PersistOf(@)]

\* the groups of x as File records
RecordsOf(gs) ==
    [k \in 1..Len(gs) |-> [i \in 1..Len(gs[k]) |-> Persistent(files[gs[k][i]])]]

\* C12: reading the text that write produced for x gives an Index equal to
\* x: no error, the same root, the same groups in the same order, and for
\* every file the same path, digest, size, modification time and persistent
\* flag.
C12_ReadWriteIsIdentity ==
    (call.op = "read") =>
      /\ pc = "read"
      /\ call.err = ""
      /\ call.out.root = x.root
      /\ call.out.groups = RecordsOf(x.groups)

\* a file that write must emit: not Gone, or carrying a persistent mark
Written(id) == ~IsGone(files[id].flag) \/ MarkOf(files[id].flag) # 0

Forgotten(g) == \A i \in 1..Len(g) : ~Written(g[i])

Trailer == << "\t", "\t" >>

RECURSIVE ExpectedLines(_)
\* how the lines after the header must begin: per group that is not
\* forgotten, flag and path of each written file, then one trailer
ExpectedLines(gs) ==
    IF gs = << >> THEN << >>
    ELSE LET g == SelectSeq(Head(gs), Written)
         IN  (IF g = << >> THEN << >>
              ELSE [i \in 1..Len(g) |->
                      flagString(files[g[i]].flag) \o << "\t" >> \o files[g[i]].path]
                   \o << Trailer >>)
             \o ExpectedLines(Tail(gs))

HasPrefix(s, p) == Len(p) <= Len(s) /\ SubSeq(s, 1, Len(p)) = p

\* C13: write emits a file line for a file if and only if the file is not
\* Gone or carries a persistent mark; a group whose files are all Gone and
\* unmarked produces no line and no trailer, every other group produces
\* exactly one trailer, after its file lines.
C13_WriteOmitsForgottenFiles ==
    (pc \in { "written", "read" }) =>
      LET lines == ScanLines(buf)
          body == SubSeq(lines, 3, Len(lines))
          want == ExpectedLines(x.groups)
      IN  /\ Len(body) = Len(want)
          /\ \A j \in 1..Len(body) :
               /\ HasPrefix(body[j], want[j])
               /\ HasPrefix(body[j], Trailer) <=> want[j] = Trailer
               /\ want[j] # Trailer =>
                    \/ Len(body[j]) = Len(want[j])
                    \/ body[j][Len(want[j]) + 1] = "\t"

\* a written Index with a forgotten group and a group that mixes a
\* forgotten file, a Gone file with a mark and an existing file
C13_Witness ==
    /\ pc = "written"
    /\ \E k \in 1..Len(x.groups) : Forgotten(x.groups[k])
    /\ \E k \in 1..Len(x.groups) :
         /\ \E i \in 1..Len(x.groups[k]) : ~Written(x.groups[k][i])
         /\ \E i \in 1..Len(x.groups[k]) :
              IsGone(files[x.groups[k][i]].flag) /\ Written(x.groups[k][i])

\* ------------------------------------------------------------------------
\* Properties of ToTree and ToIndex
\* ------------------------------------------------------------------------

\* C14: x.ToTree().ToIndex() equals x: the same files, those marked Gone
\* included, in the same groups in the same order.
C14_ToIndexOfToTree ==
    (call.op = "ToIndex") =>
      /\ pc = "indexed"
      /\ call.out.root = x.root
      /\ call.out.groups = x.groups

\* ToIndex was called on the Tree of an Index with several groups, a group
\* of several files and a Gone file
C14_Witness ==
    /\ call.op = "ToIndex"
    /\ Len(x.groups) > 1
    /\ \E k \in 1..Len(x.groups) : Len(x.groups[k]) > 1
    /\ \E id \in DOMAIN files : IsGone(files[id].flag)

\* the digests of the files under directory d that exist
LiveDigests(d) ==
    { files[id].digest : id \in { i \in DOMAIN files :
                                    ~IsGone(files[i].flag) /\ contains(d, files[i].path) } }

\* C15: when ToTree is about to fill in the counts the integrity check of
\* updateCounts does not abort, and in the Tree it returns uniqueFiles of
\* every directory is the number of distinct digests among the non-gone
\* files under it, which is at most totalFiles.
C15_UniqueFilesCountsDigests ==
    /\ (pc = "wait" /\ \A w \in SortWorkers : sorter[w].pc = "exit") =>
          ~CountsPanic(updateCounts(t.dirs, Root))
    /\ (pc = "tree") =>
          \A d \in DOMAIN t.dirs :
            /\ t.dirs[d].uniqueFiles = Cardinality(LiveDigests(d))
            /\ t.dirs[d].totalFiles >= t.dirs[d].uniqueFiles

\* a Tree with a Gone file whose digest no other file has, and a directory
\* that holds two files of one digest
C15_Witness ==
    /\ pc = "tree"
    /\ \E id \in DOMAIN files :
         /\ IsGone(files[id].flag)
         /\ \A j \in DOMAIN files : j # id => files[j].digest # files[id].digest
    /\ \E d \in DOMAIN t.dirs : t.dirs[d].totalFiles > t.dirs[d].uniqueFiles

\* ------------------------------------------------------------------------
\* Specification of MarkDup, MarkJunk and MarkKeep on the Tree of an Index
\* ------------------------------------------------------------------------

\* A/a  A/ab  B/a  y, in Files.Sort order, and their digests
MarkPaths ==
    << << "A", "/", "a" >>, << "A", "/", "a", "b" >>, << "B", "/", "a" >>, << "y" >> >>

MarkDigests == << 1, 2, 1, 2 >>

MarkFlags == { flagNone, flagDup, flagKeep, flagGone }

\* the names a caller passes: the root, a directory with and without its
\* slash, files, a name that does not exist, and names that are not clean
MarkNames ==
    { Root, << "A" >>, << "A", "/" >>, << "A", "/", "a" >>, << "A", "/", "a", "b" >>,
      << "B", "/", "a" >>, << "y" >>, << "n" >>, << ".", "/", "y" >>,
      << ".", "/", ".", "/", "y" >> }

InitMark ==
    \E fl \in [1..Len(MarkPaths) -> MarkFlags] :
      LET F == [i \in 1..Len(MarkPaths) |->
                  [path |-> MarkPaths[i], digest |-> MarkDigests[i], size |-> 1,
                   modTime |-> 1, flag |-> fl[i]]]
          ix == New(TextRoot, F, [i \in 1..Len(F) |-> i])
          X == [root |-> ix.root, groups |-> ix.groups]
      IN  /\ files = F
          /\ x = X
          /\ t = ToTreeSorted(X, F)
          /\ pc = "tree"
          /\ buf = << >>
          /\ call = IdleCall
          /\ src = << >>
          /\ IdleTasks

\* t.MarkDup(name), t.MarkJunk(name), t.MarkKeep(name)
Mark(op, flag, name) ==
    /\ pc = "tree"
    /\ \E r \in { mark(t, files, name, flag) } :
         /\ pc' = IF r.panic THEN "panic" ELSE "tree"
         /\ files' = r.files
         /\ call' = [op |-> op, arg |-> name, err |-> r.err, out |-> << flag >>]
    /\ UNCHANGED << x, t, buf, taskVars >>

MarkDup(name) == Mark("MarkDup", flagDup, name)
MarkJunk(name) == Mark("MarkJunk", flagJunk, name)
MarkKeep(name) == Mark("MarkKeep", flagKeep, name)

NextMark ==
    \/ \E name \in MarkNames : MarkDup(name)
    \/ \E name \in MarkNames : MarkJunk(name)
    \/ \E name \in MarkNames : MarkKeep(name)

SpecMark == InitMark /\ [][NextMark]_vars

\* ------------------------------------------------------------------------
\* Properties of the mark operations
\* ------------------------------------------------------------------------

MarkOps == { "MarkDup", "MarkJunk", "MarkKeep" }

\* the existing files a name stands for: the file with that path, or the
\* files beneath that directory
NamedFiles(name) ==
    LET live == { id \in DOMAIN files : ~IsGone(files[id].flag) }
    IN  IF \E id \in live : files[id].path = name
        THEN { id \in live : files[id].path = name }
        ELSE LET d == IF isDir(name) THEN name ELSE name \o << "/" >>
             IN  IF d \in DOMAIN t.dirs THEN { id \in live : contains(d, files[id].path) }
                 ELSE {}

\* name is the path of an existing file or of a directory of the Tree
Named(name) ==
    \/ \E id \in DOMAIN files : ~IsGone(files[id].flag) /\ files[id].path = name
    \/ (IF isDir(name) THEN name ELSE name \o << "/" >>) \in DOMAIN t.dirs

\* C16: a mark operation on name returns without error exactly when name is
\* the path of an existing non-gone file or of an existing directory, and
\* changes the flag of no file other than that file, or the non-gone files
\* beneath that directory; a call that returns not-found changes no flag.
C16_MarkTargetsNamedFiles ==
    [][ call'.op \in MarkOps =>
          /\ pc' = "tree"
          /\ (call'.err = "") <=> Named(call'.arg)
          /\ \A id \in DOMAIN files :
               id \notin NamedFiles(call'.arg) => files'[id] = files[id]
          /\ call'.err # "" => files' = files ]_vars

\* the files a mark operation on name applies set to: those of the
\* directory's sub-tree, or the file that Tree.file finds
Reaches(name) ==
    LET e == eitherPath(name)
    IN  IF e.panic THEN {}
        ELSE IF e.dir \in DOMAIN t.dirs THEN Seq2Set(SubtreeFiles(t.dirs, e.dir))
        ELSE { id \in DOMAIN files : id = treeFile(t, files, e.file) }

\* C17 as stated: a mark operation sets its mark on every file it reaches
\* whose flag does not have Keep set, files marked Dup or Junk included, and
\* leaves the files marked Keep unchanged.
C17_MarksAllButKeep ==
    [][ (call'.op \in MarkOps /\ call'.err = "" /\ pc' = "tree") =>
          \A id \in Reaches(call'.arg) :
            IF MarkOf(files[id].flag) # flagKeep
            THEN MarkOf(files'[id].flag)
                   \in { call'.out[1], OrMark(MarkOf(files[id].flag), call'.out[1]) }
            ELSE files'[id] = files[id] ]_vars

\* C17, amended: a mark operation sets its mark on every file it reaches
\* that carries no mark and leaves unchanged every file it reaches that is
\* marked Dup, Junk or Keep; so Keep is never downgraded.
C17_MarksUnmarkedOnly ==
    [][ (call'.op \in MarkOps /\ call'.err = "" /\ pc' = "tree") =>
          \A id \in Reaches(call'.arg) :
            IF MarkOf(files[id].flag) = 0
            THEN files'[id] = [files[id] EXCEPT !.flag = @ + call'.out[1]]
            ELSE files'[id] = files[id] ]_vars

\* MarkJunk of directory A left A/a marked Dup and marked A/ab Junk
C17_Witness ==
    /\ call.op = "MarkJunk"
    /\ call.arg = << "A" >>
    /\ call.err = ""
    /\ MarkOf(files[1].flag) = flagDup
    /\ MarkOf(files[2].flag) = flagJunk

\* C18: a mark operation never changes the flag of a file that carries a
\* mark, and a file without a mark gets at most the mark of the operation;
\* so each file's mark is one of None, Dup, Junk, Keep and is the first mark
\* applied to it.
C18_FirstMarkStays ==
    [][ call'.op \in MarkOps =>
          \A id \in DOMAIN files :
            /\ MarkOf(files[id].flag) # 0 => files'[id] = files[id]
            /\ MarkOf(files[id].flag) = 0 =>
                 \/ files'[id] = files[id]
                 \/ files'[id] = [files[id] EXCEPT !.flag = @ + call'.out[1]] ]_vars

\* MarkKeep of the root met a file marked Dup, which stays Dup, next to a
\* file it marked Keep
C18_Witness ==
    /\ call.op = "MarkKeep"
    /\ call.arg = Root
    /\ \E id \in DOMAIN files : MarkOf(files[id].flag) = flagDup /\ ~IsGone(files[id].flag)
    /\ \E id \in DOMAIN files : MarkOf(files[id].flag) = flagKeep /\ ~IsGone(files[id].flag)

\* ------------------------------------------------------------------------
\* Properties of groupByDigest
\* ------------------------------------------------------------------------

\* two files of the list have equal digests and unequal sizes
Collision ==
    \E i, j \in DOMAIN files :
      files[i].digest = files[j].digest /\ files[i].size # files[j].size

\* the positions of the groups: << k, i >> for file i of group k
Slots == { << k, i >> : k \in 1..Len(x.groups), i \in 1..MaxFiles + 1 } \cap
         { s \in (1..Len(x.groups)) \X (1..MaxFiles + 1) : s[2] <= Len(x.groups[s[1]]) }

\* C20: for a file list without two files of equal digest and unequal size,
\* groupByDigest does not abort and places every file in exactly one group;
\* two files share a group exactly when their digests are equal; the groups
\* are in the order in which their first files occur in the list, and the
\* files of a group are in the order of the list.
C20_GroupsPartitionByDigest ==
    /\ (call.op = "New" /\ pc = "panic") => Collision
    /\ (call.op \in { "New", "write", "read" } /\ ~Collision) =>
         /\ pc # "panic"
         /\ \A k \in 1..Len(x.groups) : x.groups[k] # << >>
         /\ \A id \in DOMAIN files :
              Cardinality({ s \in Slots : x.groups[s[1]][s[2]] = id }) = 1
         /\ \A s, u \in Slots :
              (files[x.groups[s[1]][s[2]]].digest = files[x.groups[u[1]][u[2]]].digest)
                <=> s[1] = u[1]
         /\ \A k \in 1..(Len(x.groups) - 1) : x.groups[k][1] < x.groups[k + 1][1]
         /\ \A s, u \in Slots :
              (s[1] = u[1] /\ s[2] < u[2]) => x.groups[s[1]][s[2]] < x.groups[u[1]][u[2]]

\* New grouped three files: the first and the last share the greater
\* digest, the second has the smaller one
C20_Witness ==
    /\ call.op = "New"
    /\ pc = "index"
    /\ x.groups = << << 1, 3 >>, << 2 >> >>
    /\ files[1].digest > files[2].digest

\* ------------------------------------------------------------------------
\* Specification of Hasher.Read on the files of a source, followed by New
\* (index/hash.go 36-80)
\* ------------------------------------------------------------------------

\* BLAKE3-256 of a byte string; no two byte strings of the model collide
Sum256(b) == << "blake3" >> \o b

\* Hasher.Read of a file that can be read and does not change: the bytes
\* of a zero-length file's name take the place of its content
hashFile(e) ==
    [path |-> e.path,
     digest |-> Sum256(IF Len(e.data) = 0 THEN e.path ELSE e.data),
     size |-> Len(e.data), modTime |-> 1, flag |-> flagNone]

\* the file names of the source, in Files.Sort order
HashPaths == << << "A", "/", "u" >>, << "u" >>, << "v" >>, << "y" >>, << "z" >> >>

\* what a file may hold
HashData == { << >>, << "u" >>, << "v" >>, << "A", "/", "u" >> }

MaxSource == 4

InitHash ==
    \E n \in 1..MaxSource : \E data \in [1..n -> HashData] :
      /\ src = [i \in 1..n |-> [path |-> HashPaths[i], data |-> data[i]]]
      /\ files = << >>
      /\ x = [root |-> << >>, groups |-> << >>]
      /\ t = [root |-> << >>, dirs |-> EmptyMap, idx |-> EmptyMap]
      /\ pc = "hash"
      /\ buf = << >>
      /\ call = IdleCall
      /\ IdleTasks

\* h.Read(fsys, name) of the next file of the source
HashNext ==
    /\ pc = "hash"
    /\ Len(files) < Len(src)
    /\ files' = Append(files, hashFile(src[Len(files) + 1]))
    /\ call' = [op |-> "Read", arg |-> src[Len(files) + 1].path, err |-> "", out |-> << >>]
    /\ UNCHANGED << x, t, pc, buf, src, toTreeVars, dupsVars,
                    opt, wk, hs, hashCh, fileCh, werrCh, canceled, rs >>

\* New(root, all) of the files that were hashed
HashIndex ==
    /\ pc = "hash"
    /\ Len(files) = Len(src)
    /\ \E r \in { New(TextRoot, files, [i \in 1..Len(files) |-> i]) } :
         /\ pc' = IF r.panic THEN "panic" ELSE "index"
         /\ x' = [root |-> r.root, groups |-> r.groups]
         /\ call' = [op |-> "New", arg |-> << >>,
                     err |-> IF r.panic THEN "digest collision" ELSE "", out |-> << >>]
    /\ UNCHANGED << files, t, buf, taskVars >>

NextHash == HashNext \/ HashIndex

SpecHash == InitHash /\ [][NextHash]_vars

\* C19: an empty file shares its digest with no other file of the source,
\* empty or not, and building the Index of the hashed files never finds
\* two files with equal digest and different sizes.
C19_EmptyFileDigestIsUnique ==
    /\ \A i, j \in DOMAIN files :
         (i # j /\ files[i].size = 0) => files[i].digest # files[j].digest
    /\ pc # "panic"

\* ------------------------------------------------------------------------
\* Properties of write and read on Indexes that hold forgotten files
\* ------------------------------------------------------------------------

\* the groups of x without their forgotten files, groups left empty dropped
WrittenGroups(gs) ==
    LET NonEmpty(g) == g # << >>
    IN  SelectSeq([k \in 1..Len(gs) |-> SelectSeq(gs[k], Written)], NonEmpty)

\* C28: the text that write produced is accepted by read, and every written
\* file is recovered, in its group, with its own modification time (and
\* path, digest, size and persistent flag), also when the groups of the
\* Index mix written files with forgotten ones.
C28_WrittenFilesRecovered ==
    (call.op = "read") =>
      /\ pc = "read"
      /\ call.err = ""
      /\ call.out.groups = RecordsOf(WrittenGroups(x.groups))

\* ------------------------------------------------------------------------
\* Specification of read on texts that write did not produce
\* ------------------------------------------------------------------------

MaxLines == 4

\* lines a text is put together from: a file line with a time, one that
\* inherits its time, one with the bare marker after a path that ends in a
\* tab, one whose path is not clean, and a trailer
LinePool ==
    { << "\t", "a", "\t", "/", "/", "\t", TimeText[1] >>,
      << "K", "\t", "c" >>,
      << "\t", "d", "\t", "\t", "/", "/" >>,
      << "\t", ".", "/", "a" >>,
      << "\t", "\t", DigestText[1], "\t", SizeText[1] >> }

FirstLines == { << v1 >>, << "fsx index v2" >> }

RECURSIVE JoinLines(_)
JoinLines(ls) ==
    IF ls = << >> THEN << >> ELSE Head(ls) \o << "\n" >> \o JoinLines(Tail(ls))

\* the texts: nothing at all, or a first line, the root and up to MaxLines
\* lines of the pool
ReadTexts ==
    { << >> } \cup
    { JoinLines(<< first, TextRoot >> \o body) :
        first \in FirstLines,
        body \in UNION { [1..n -> LinePool] : n \in 0..MaxLines } }

InitRead ==
    \E text \in ReadTexts :
      /\ buf = text
      /\ pc = "written"
      /\ files = << >>
      /\ x = [root |-> << >>, groups |-> << >>]
      /\ t = [root |-> << >>, dirs |-> EmptyMap, idx |-> EmptyMap]
      /\ call = IdleCall
      /\ src = << >>
      /\ IdleTasks

NextRead == IndexRead

SpecRead == InitRead /\ [][NextRead]_vars

\* the lines after signature and root
BodyLines == LET lines == ScanLines(buf) IN SubSeq(lines, 3, Len(lines))

IsTrailer(ln) == HasPrefix(ln, Trailer)

HasTime(ln) == \E i \in 1..Len(ln) : ln[i] \in Seq2Set(TimeText)

\* line j is the first line after the header or after a trailer
StartsGroup(j) == j = 1 \/ IsTrailer(BodyLines[j - 1])

\* the first line is not the signature; a trailer has no file line before
\* it; the first file line of a group has no time; the text ends with file
\* lines
Malformed ==
    \/ ScanLines(buf) = << >>
    \/ ScanLines(buf)[1] # << v1 >>
    \/ \E j \in 1..Len(BodyLines) : IsTrailer(BodyLines[j]) /\ StartsGroup(j)
    \/ \E j \in 1..Len(BodyLines) :
         ~IsTrailer(BodyLines[j]) /\ StartsGroup(j) /\ ~HasTime(BodyLines[j])
    \/ (BodyLines # << >> /\ ~IsTrailer(BodyLines[Len(BodyLines)]))

\* C23: for every input whose first line is not the signature, that has a
\* trailer without a pending file line, whose first file line of a group
\* has no modification time, or that ends with file lines without a
\* trailer, read returns an error and no Index.
C23_MalformedTextIsAnError ==
    (call.op = "read" /\ Malformed) =>
      /\ pc = "read"
      /\ call.err # ""
      /\ call.out = [root |-> << >>, groups |-> << >>]

\* ------------------------------------------------------------------------
\* Specification of path.cmp on valid paths
\* ------------------------------------------------------------------------

MaxDepth == 2

\* the names a path is made of
PathSegs == { << "a" >>, << "b" >>, << "a", "b" >>, << ".", "a" >> }

RECURSIVE DirsOfDepth(_)
\* the directory paths of n names, without the root
DirsOfDepth(n) ==
    IF n = 0 THEN { << >> }
    ELSE { d \o s \o << "/" >> : d \in DirsOfDepth(n - 1), s \in PathSegs }

\* the root, and the clean directory and file paths of up to MaxDepth names
ValidPaths ==
    { Root }
      \cup UNION { DirsOfDepth(n) : n \in 1..MaxDepth }
      \cup UNION { { d \o s : d \in DirsOfDepth(n), s \in PathSegs } :
                   n \in 0..(MaxDepth - 1) }

InitCmp ==
    \E p \in ValidPaths, q \in ValidPaths, r \in ValidPaths :
      /\ call = [op |-> "paths", arg |-> << p, q, r >>, err |-> "", out |-> << >>]
      /\ pc = "paths"
      /\ buf = << >>
      /\ files = << >>
      /\ x = [root |-> << >>, groups |-> << >>]
      /\ t = [root |-> << >>, dirs |-> EmptyMap, idx |-> EmptyMap]
      /\ src = << >>
      /\ IdleTasks

\* p.cmp(q), q.cmp(p), q.cmp(r), p.cmp(r), each path with itself
PathCmp ==
    /\ pc = "paths"
    /\ pc' = "compared"
    /\ LET p == call.arg[1]
           q == call.arg[2]
           r == call.arg[3]
       IN  call' = [call EXCEPT
                      !.op = "cmp",
                      !.out = [pq |-> pathCmp(p, q), qp |-> pathCmp(q, p),
                               qr |-> pathCmp(q, r), pr |-> pathCmp(p, r),
                               pp |-> pathCmp(p, p)]]
    /\ UNCHANGED << buf, files, x, t, src, taskVars >>

NextCmp == PathCmp

SpecCmp == InitCmp /\ [][NextCmp]_vars

\* the same name is a file in one path and a directory in the other
MixedName(p, q) ==
    \/ (isFile(p) /\ Len(q) > Len(p) /\ HasPrefix(q, p \o << "/" >>))
    \/ (isFile(q) /\ Len(p) > Len(q) /\ HasPrefix(p, q \o << "/" >>))

\* q is a file and p a directory of the same parent directory
SiblingDirFile(p, q) == isDir(p) /\ p # Root /\ isFile(q) /\ dir(p) = dir(q)

\* the properties of a total order on the three paths compared
TotalOrderOn(p, q, r, o) ==
    /\ { o.pq, o.qp, o.qr, o.pr, o.pp } \subseteq { -1, 0, 1 }
    /\ o.pp = 0
    /\ (o.pq = 0) <=> (p = q)
    /\ o.qp = -o.pq
    /\ (o.pq <= 0 /\ o.qr <= 0) => o.pr <= 0
    /\ (o.pq = -1 /\ o.qr = -1) => o.pr = -1
    /\ (p = Root /\ q # Root) => o.pq = -1
    /\ SiblingDirFile(p, q) => o.pq = -1

\* C21 as stated: cmp returns a result for every pair of valid paths and is
\* a total order on them: zero exactly for equal paths, antisymmetric,
\* transitive, the root least, a directory before a file of the same parent.
C21_CmpIsTotalOrder ==
    (call.op = "cmp") =>
      TotalOrderOn(call.arg[1], call.arg[2], call.arg[3], call.out)

\* C21 amended: the same holds for every three valid paths among which no
\* name is a file in one path and a directory in another; for such a pair
\* cmp panics.
C21_CmpIsTotalOrderUnmixed ==
    (call.op = "cmp") =>
      LET p == call.arg[1]
          q == call.arg[2]
          r == call.arg[3]
      IN  /\ (~MixedName(p, q) /\ ~MixedName(q, r) /\ ~MixedName(p, r))
               => TotalOrderOn(p, q, r, call.out)
          /\ MixedName(p, q) <=> (call.out.pq = PanicCmp)

\* a directory, a file beside it and a file with a directory, in this order
C21_Witness ==
    /\ call.op = "cmp"
    /\ call.arg = << << "a", "/", "b", "/" >>, << "a", "/", "a" >>, << "a", "b" >> >>
    /\ call.out.pq = -1
    /\ call.out.qr = -1
    /\ call.out.pr = -1

\* ------------------------------------------------------------------------
\* Properties of the list Dups returns
\* ------------------------------------------------------------------------

\* C22: the list Dups returns is sorted ascending by directory path with no
\* directory twice, every entry lies strictly below the root directory of
\* the call and satisfies isDup, and it has at most maxDups entries when
\* maxDups > 0.
C22_DupsSortedBelowRoot ==
    pc = "done" =>
      /\ \A i \in 1..(Len(ret) - 1) : pathCmp(ret[i].dir, ret[i + 1].dir) = -1
      /\ \A i, j \in 1..Len(ret) : ret[i].dir = ret[j].dir => i = j
      /\ \A i \in 1..Len(ret) :
            /\ ret[i].dir # du.root
            /\ contains(du.root, ret[i].dir)
            /\ isDup(t, files, ret[i].dir, du.maxLost).ok
      /\ du.maxDups > 0 => Len(ret) <= du.maxDups

\* a call without a limit returned two directories, received in descending
\* order
C22_Witness ==
    /\ pc = "done"
    /\ du.maxDups = 0
    /\ Len(ret) >= 2
    /\ Len(du.dups) >= 2
    /\ pathCmp(du.dups[1].dir, du.dups[2].dir) = 1

\* a call with a limit found more duplicates than it returned
C22_WitnessLimit ==
    /\ pc = "done"
    /\ du.maxDups > 0
    /\ Len(du.dups) > du.maxDups
    /\ Len(ret) = du.maxDups

\* ------------------------------------------------------------------------
\* Specification of dedup and Dup.FileMap on a Tree
\* ------------------------------------------------------------------------

\* the file paths of the Indexes, each in Files.Sort order
DedupLayouts ==
    { << << "A", "/", "a" >>, << "B", "/", "a" >>, << "X", "/", "a" >> >>,
      << << "A", "/", "a" >>, << "A", "/", "b" >>, << "B", "/", "a" >>,
         << "X", "/", "b" >>, << "y" >> >>,
      << << ".", "g", "i", "t", "/", "b", "/", "f" >>, << "A", "/", "a" >>, << "y" >> >>,
      << << "A", "/", "B", "/", "a" >>, << "A", "/", "b" >>, << "y" >> >> }

\* the orders in which a map iteration can yield the elements of S
Perms(S) ==
    { q \in [1..Cardinality(S) -> S] : \A i, j \in 1..Cardinality(S) : q[i] = q[j] => i = j }

\* the Tree that ToTree returns for the Index of a layout
InitDedup ==
    \E P \in DedupLayouts :
      \E dg \in DigestChoices(Len(P)) : \E fl \in FlagChoices(Len(P), MaxMarked) :
        LET F == [i \in 1..Len(P) |->
                    [path |-> P[i], digest |-> dg[i], size |-> 1, modTime |-> 1,
                     flag |-> fl[i]]]
            ix == New(<< >>, F, [i \in 1..Len(P) |-> i])
            X == [root |-> ix.root, groups |-> ix.groups]
            T == ToTreeSorted(X, F)
        IN  /\ files = F
            /\ x = X
            /\ t = [T EXCEPT !.dirs = WithAtoms(@)]
            /\ pc = "tree"
            /\ buf = << >>
            /\ call = IdleCall
            /\ src = << >>
            /\ IdleTasks

NoDup == [panic |-> FALSE, dir |-> EmptyPath, alts |-> << >>, lost |-> << >>,
          ignored |-> << >>, safe |-> EmptyMap]

\* dd.isDup(t, d, maxLost) and, when it holds, dd.dedup(), the maps of dedup
\* iterated in the order ord
Dedup(d, maxLost, ord) ==
    /\ pc = "tree"
    /\ \E r \in { isDup(t, files, d, maxLost) } :
       \E sel \in { IF r.ok
                    THEN SelectAltsIn(t, files, d, r.safe,
                                      [panic |-> FALSE, alts |-> << >>, safe |-> EmptyMap,
                                       rounds |-> << >>], ord)
                    ELSE [panic |-> FALSE, alts |-> << >>, safe |-> EmptyMap,
                          rounds |-> << >>] } :
         /\ pc' = IF ~r.ok THEN "nodup" ELSE IF sel.panic THEN "panic" ELSE "dup"
         /\ call' = [op |-> "dedup", arg |-> << d, maxLost, ord >>, err |-> "",
                     out |-> [dup |-> IF r.ok
                                      THEN MakeDup(files, d, r,
                                             [panic |-> sel.panic, alts |-> sel.alts,
                                              safe |-> sel.safe])
                                      ELSE NoDup,
                              rounds |-> sel.rounds,
                              m |-> EmptyMap]]
    /\ UNCHANGED << files, x, t, buf, src, taskVars >>

\* u.FileMap(alt) of the Dup returned
FileMapCall(alt) ==
    /\ pc = "dup"
    /\ \E r \in { FileMap(t, files, call.out.dup, alt) } :
         /\ pc' = IF r.panic THEN "panic" ELSE "mapped"
         /\ call' = [call EXCEPT !.op = "FileMap", !.arg = << alt >>, !.out.m = r.m]
    /\ UNCHANGED << files, x, t, buf, src, taskVars >>

\* the names FileMap is called with: "", the directories, one that is none
FileMapAlts == { EmptyPath, << "Z", "/" >> } \cup DOMAIN t.dirs

NextDedup ==
    \/ \E d \in DOMAIN t.dirs \ { Root }, l \in 0..MaxLost, ord \in Perms(DOMAIN t.dirs) :
         Dedup(d, l, ord)
    \/ \E alt \in FileMapAlts : FileMapCall(alt)

SpecDedup == InitDedup /\ [][NextDedup]_vars

\* C24: the alternates reported for a directory are a function of the Tree
\* alone: in every round the directory of the highest score, the least path
\* among equal scores, whatever order the map iteration and the worker
\* produce.
C24_AltsFunctionOfTree ==
    (call.op = "dedup" /\ pc = "dup") =>
      LET d == call.arg[1]
          u == dedup(t, files, d, isDup(t, files, d, call.arg[2]))
      IN  /\ call.out.dup.alts = u.alts
          /\ call.out.dup.safe = u.safe

\* the iteration reached the directory that is not chosen first, and it has
\* the score of the chosen one
C24_Witness ==
    /\ call.op = "dedup"
    /\ pc = "dup"
    /\ LET d == call.arg[1]
           ord == call.arg[3]
           r == call.out.rounds[1]
           b == call.out.dup.alts[1]
           InCnt(p) == p \in DOMAIN r.cnt
           it == SelectSeq(ord, InCnt)
       IN  /\ Len(call.out.dup.alts) = 1
           /\ it[1] # b
           /\ scoreEq(altScore(t, d, it[1], r.cnt[it[1]], r.rem),
                      altScore(t, d, b, r.cnt[b], r.rem))

\* ------------------------------------------------------------------------
\* Properties of altScore and FileMap
\* ------------------------------------------------------------------------

\* the score is a fraction between 0 and 1
ScoreInUnit(sc) == sc[2] > 0 /\ 0 <= sc[1] /\ sc[1] <= sc[2]

\* C25: every invocation altScore(alt, safe, rem) of a directory d made by
\* dedup has 0 < safe <= alt.uniqueFiles and safe <= rem <= d.uniqueFiles,
\* a step distance of at least 1 from d to the common root, and a score
\* within [0, 1]; neither assertion of altScore aborts.
C25_AltScoreArgumentsValid ==
    (call.op = "dedup") =>
      /\ pc # "panic"
      /\ \A k \in 1..Len(call.out.rounds) :
           LET d == call.arg[1]
               r == call.out.rounds[k]
           IN  \A alt \in DOMAIN r.cnt :
                  /\ 0 < r.cnt[alt]
                  /\ r.cnt[alt] <= t.dirs[alt].uniqueFiles
                  /\ r.cnt[alt] <= r.rem
                  /\ r.rem <= t.dirs[d].uniqueFiles
                  /\ dist(d, commonRoot(d, alt)) >= 1
                  /\ ScoreInUnit(altScore(t, d, alt, r.cnt[alt], r.rem))

\* a second round scored an alternate that holds every remaining digest, an
\* exact copy beside d among its candidates in the first
C25_Witness ==
    /\ call.op = "dedup"
    /\ pc = "dup"
    /\ Len(call.out.rounds) >= 2
    /\ \E alt \in DOMAIN call.out.rounds[2].cnt :
          call.out.rounds[2].cnt[alt] = call.out.rounds[2].rem
    /\ \E alt \in DOMAIN call.out.rounds[1].cnt :
          call.out.rounds[1].cnt[alt] < call.out.rounds[1].rem

\* C29: for every Dup of a directory d, the alternate assigned to each safe
\* digest contains a safe copy of it outside d, and FileMap never maps a
\* file of d to a file under d.
C29_FileMapLeavesDirectory ==
    (call.op = "FileMap" /\ pc = "mapped") =>
      LET u == call.out.dup
      IN  /\ \A g \in DOMAIN u.safe :
                \E id \in DOMAIN files :
                   /\ files[id].digest = g
                   /\ isSafeIn(files[id], u.safe[g])
                   /\ ~contains(u.dir, files[id].path)
          /\ \A id \in DOMAIN call.out.m :
                /\ contains(u.dir, files[id].path)
                /\ ~contains(u.dir, files[call.out.m[id]].path)

\* the directories strictly below the root directory of the call
BelowRoot == { d \in DOMAIN t.dirs : d # du.root /\ contains(du.root, d) }

\* the outermost duplicates: the directories below the root that satisfy
\* isDup and have no proper ancestor below the root that does
OutermostDups ==
    LET Dup(d) == isDup(t, files, d, du.maxLost).ok
    IN  { d \in BelowRoot :
            /\ Dup(d)
            /\ \A a \in BelowRoot : (a # d /\ contains(a, d)) => ~Dup(a) }

\* C27: with maxDups <= 0 the set of directories Dups returns is the same
\* under every scheduling of the controller, the workers and the closer:
\* the directories strictly below the root that satisfy isDup and have no
\* proper ancestor strictly below the root that satisfies isDup.
C27_ReturnsOutermostDups ==
    (pc = "done" /\ du.maxDups <= 0) =>
      { ret[i].dir : i \in 1..Len(ret) } = OutermostDups

\* a call returned a directory found by descending into its parent
C27_WitnessDescent ==
    /\ pc = "done"
    /\ du.maxDups <= 0
    /\ \E i \in 1..Len(ret) : dir(ret[i].dir) \in BelowRoot

\* a call left out a duplicate below a directory it returned
C27_Witness ==
    /\ pc = "done"
    /\ du.maxDups <= 0
    /\ \E d \in BelowRoot \ OutermostDups : isDup(t, files, d, du.maxLost).ok

\* ------------------------------------------------------------------------
\* Specification of Dups with its goroutines scheduled fairly
\* ------------------------------------------------------------------------

\* The Tree is not written while Dups runs, so what isDup and dedup answer
\* for a directory and a maxLost is fixed when the call starts: call.out
\* holds these answers, [directory -> [maxLost -> [ok, panic, dup]]].
DupsAnswers(T, F) ==
    [d \in DOMAIN T.dirs |->
       [l \in 0..MaxLost |->
          LET r == isDup(T, F, d, l)
              u == dedup(T, F, d, r)
          IN  IF ~r.ok THEN NoTest
              ELSE [ok |-> TRUE, panic |-> u.panic, dup |-> [u EXCEPT !.panic = FALSE]]]]

\* the Tree that ToTree returns for the Index of a layout with unmarked
\* files
InitDups ==
    \E L \in TreeLayouts :
      \E dg \in DigestChoices(Len(L.paths)) :
        LET F == [i \in 1..Len(L.paths) |->
                    [path |-> L.paths[i], digest |-> dg[i], size |-> 1, modTime |-> 1,
                     flag |-> flagNone]]
            ix == New(<< >>, F, [i \in 1..Len(L.paths) |-> i])
            X == [root |-> ix.root, groups |-> ix.groups]
            T == ToTreeSorted(X, F)
            TT == [T EXCEPT !.dirs = WithAtoms(@)]
        IN  /\ files = F
            /\ x = X
            /\ t = TT
            /\ pc = "tree"
            /\ buf = << >>
            /\ call = [IdleCall EXCEPT !.out = DupsAnswers(TT, F)]
            /\ src = << >>
            /\ IdleTasks

\* a worker's step with the answer taken from call.out
WorkRecvAnswer(w) ==
    /\ worker[w].pc = "recv"
    /\ \E v \in { IF nextCh.buf # << >>
                   THEN call.out[Head(nextCh.buf)][du.maxLost] ELSE NoTest } :
         WorkRecvOf(w, v)

NextDups ==
    \/ \E d \in DupsRoots, m \in 0..MaxDups, l \in 0..MaxLost : DupsStart(d, m, l)
    \/ CtlSend
    \/ CtlDup
    \/ CtlTodo
    \/ CtlReturn
    \/ \E w \in Workers : WorkRecvAnswer(w)
    \/ \E w \in Workers : WorkSend(w)
    \/ Closer

\* the controller, every worker and the closing goroutine take their next
\* step when they can
FairDups ==
    /\ WF_vars(CtlSend \/ CtlDup \/ CtlTodo \/ CtlReturn)
    /\ \A w \in Workers : WF_vars(WorkRecvAnswer(w) \/ WorkSend(w))
    /\ WF_vars(Closer)

SpecDupsFair == InitDups /\ [][NextDups]_vars /\ FairDups

\* the call is between its start and its return
DupsRunning == pc \in { "send", "select" }

\* directories queued, buffered in next, held by a worker, or results not
\* yet received by the controller
InFlight ==
    Len(du.q) + Len(nextCh.buf) + Len(dupCh.buf) + Len(todoCh)
      + Cardinality({ w \in Workers : worker[w].pc \in { "dup", "todo" } })

\* every goroutine of the call is gone and nothing is left in a channel
AllExited ==
    /\ \A w \in Workers : worker[w].pc \in { "idle", "exit" }
    /\ closer \in { "idle", "done" }
    /\ InFlight = 0

\* C26: Dups terminates under every interleaving of the controller, the
\* workers and the closer: the controller returns, by then every worker and
\* the closer have exited and nothing is blocked on a channel; the work
\* counter is never negative and is zero only when nothing is queued or in
\* flight, also after maxDups cancelled the pending work.
C26_DupsTerminates ==
    /\ DupsRunning ~> (pc = "done")
    /\ [](pc = "done" => AllExited)
    /\ [](wg >= 0)
    /\ [](wg = 0 => InFlight = 0)

\* the call returned after the Dup that filled maxDups cancelled a queued
\* directory while a worker was still holding another one
C26_Witness ==
    /\ pc = "done"
    /\ du.maxDups > 0
    /\ du.qnil
    /\ Len(du.dups) > du.maxDups
    /\ AllExited

\* ------------------------------------------------------------------------
\* Specification of Rescan after a file was replaced by a directory
\* ------------------------------------------------------------------------

\* the records of a file whose name a directory of source S bears now
ReplacedPool(S) ==
    { [path |-> WalkName(S[i]), digest |-> 3, size |-> 3, modTime |-> 1, flag |-> fl] :
        i \in { j \in 1..Len(S) : S[j].kind = "dir" /\ S[j].path # Root },
        fl \in { flagNone, flagDup, flagJunk, flagKeep } }

\* the heaps of the old Indexes: one record of a replaced file and at most
\* one other record, which is not below the replaced file's name, in
\* Files.Sort order
ReplacedHeaps(S) ==
    LET sets == { { r } \cup Q : r \in ReplacedPool(S),
                                 Q \in { P \in SUBSET OldPool(S) : Cardinality(P) <= 1 } }
        ok(R) == LET F0 == SetToSeq(R)
                 IN  ~FilesSort(F0, [i \in 1..Len(F0) |-> i]).panic
        heap(R) == LET F0 == SetToSeq(R)
                       o == FilesSort(F0, [i \in 1..Len(F0) |-> i]).s
                   IN  [i \in 1..Len(F0) |-> F0[o[i]]]
    IN  { heap(R) : R \in { Q \in sets : ok(Q) } }

InitReplaced ==
    \E F \in ReplacedHeaps(SrcPlain) : ScanStart(SrcPlain, F, TRUE, TRUE, NumCPU)

SpecReplaced == InitReplaced /\ [][NextScan]_vars

\* C30: a Rescan that is not canceled completes without aborting whatever
\* changed in the source, also when a marked file of the old Tree was
\* replaced by a directory of the same name that contains files: the gone
\* record that is kept and the new files can be sorted together.
C30_RescanCompletes ==
    ~isCanceled => pc # "panic"


====
